---- MODULE Spec2Model ----
(***************************************************************************)
(* Wire-protocol client for MySQL/MariaDB and PostgreSQL: the connection   *)
(* state machines of sqlx-core (mysql::Connection and the MariaDb          *)
(* executor), of mason-mariadb (Connection, Framed) and of the Postgres    *)
(* connection (receive over Message::decode).                              *)
(*                                                                         *)
(* Spec      MySQL connection, one packet per step, against a server that  *)
(*           answers every command in the shape the protocol prescribes    *)
(*           and chooses the sequence number of each packet.               *)
(* SpecRecv  mysql::Connection::try_receive over the bytes of the stream.  *)
(* SpecPg    Postgres connection: receive and Message::decode over the     *)
(*           bytes the socket delivers, under operations that read up to   *)
(*           ReadyForQuery.                                                *)
(* SpecFramed     mason-mariadb's Framed::next_bytes over the bytes of the *)
(*                stream.                                                  *)
(* SpecEstablish  the MySQL handshake (mariadb establish) and the commands *)
(*                that follow it.                                          *)
(* SpecFn    the pure functions (decoders, encoders), one call each.       *)
(* SpecRowLoop    the row loop of mason-mariadb's ResultSet::deserialize,  *)
(*                one pass per step.                                       *)
(* SpecPool  tasks running the Executor methods of &Pool on a shared pool. *)
(***************************************************************************)
EXTENDS Integers, Sequences, FiniteSets, TLC

VARIABLES
    driver,        \* "core": sqlx-core mysql::Connection; "mason": mason-mariadb Connection
    capabilities,  \* Connection.capabilities (negotiated)
    next_seq_no,   \* Connection.next_seq_no (sqlx-core)
    seq_no,        \* ConnContext.seq_no (mason-mariadb)
    pc,            \* where the running operation is suspended, or "idle" / "closed" / "panic"
    op,            \* the running (or last) operation
    frame,         \* locals of the running operation
    result,        \* what the last operation returned; none while one is running
    nops,          \* operations started so far
    sent,          \* history: packets the running (or last) operation wrote, in order
    srv,           \* the server: commands received and not yet answered, position in the answer
    lastRecv,      \* history: the packet the last receive accepted
    \* SpecRecv
    input,         \* history: every byte the peer writes before it closes the stream
    stream,        \* Connection.stream: the bytes of input not yet consumed
    rbuf,          \* Connection.rbuf
    frames,        \* history: header and returned body of every successful try_receive
    rv,            \* "open", or how the last try_receive ended the exchange
    hit_eof,       \* history: the last call found the stream at its end
    \* SpecPg
    stream_readable, \* PgConnection.stream_readable
    stream_eof,    \* PgConnection.stream_eof
    pg_rbuf,       \* PgConnection.rbuf
    wire,          \* bytes the server has written and the client has not read yet
    peer_closed,   \* the server has closed its end of the socket
    pg_pc,         \* "idle", in receive ("receive", "read"), or how the connection ended
    pg_nops,       \* operations started so far
    pg_result,     \* what the last operation returned; none while one is running
    pg_sent,       \* history: tag and size of every message the server wrote
    pg_decoded,    \* history: tags Message::decode produced during the operation
    pg_delivered,  \* history: tags receive returned to its caller during the operation
    \* SpecEstablish
    est_pc,        \* "initial", "response" (HandshakeResponse sent), "ready", "failed", "closed"
    ctx_capabilities, \* conn.context.capabilities
    est_offered,   \* history: initial.capabilities, the capabilities the server offered
    est_sent,      \* history: packets written on the connection, in order
    est_reply,     \* history: first byte of the reply to the HandshakeResponse, -1 before it
    est_result,    \* what establish returned; none while it is running
    \* Specifications of pure functions
    call,          \* the function called and its argument
    ret,           \* what it returned; pending before the call
    \* SpecPool
    pool,          \* the pool: max, idle queue, size counter, waiter queue
    conns,         \* every connection opened so far: state, poisoned flag, history
    tasks,         \* per task: where it is in its Executor method, connection held
    started,       \* Executor methods called so far
    returned       \* history: the task whose method returned last, and its result

vars == <<driver, capabilities, next_seq_no, seq_no, pc, op, frame, result,
          nops, sent, srv, lastRecv, input, stream, rbuf, frames, rv, hit_eof,
          stream_readable, stream_eof, pg_rbuf, wire, peer_closed, pg_pc, pg_nops,
          pg_result, pg_sent, pg_decoded, pg_delivered,
          est_pc, ctx_capabilities, est_offered, est_sent, est_reply, est_result,
          call, ret, pool, conns, tasks, started, returned>>

estVars == <<est_pc, ctx_capabilities, est_offered, est_sent, est_reply, est_result>>

fnVars == <<call, ret>>

poolVars == <<pool, conns, tasks, started, returned>>

auxVars == <<estVars, fnVars, poolVars>>

pgVars == <<stream_readable, stream_eof, pg_rbuf, wire, peer_closed, pg_pc, pg_nops,
            pg_result, pg_sent, pg_decoded, pg_delivered>>

recvVars == <<input, stream, rbuf, frames, rv, hit_eof>>

packetVars == <<driver, capabilities, seq_no, pc, op, frame, result, nops, sent, srv, lastRecv>>

----
\* Bounds of the model.
MaxOps == 2        \* operations started on one connection
MaxParams == 1     \* parameters of a prepared statement
MaxCols == 1       \* result columns of a prepared statement
MaxRows == 2       \* rows of one result set
MaxAffected == 1   \* affected-rows value of an OK packet
MaxSkips == 1      \* packets the server numbers out of sequence
MaxStream == 9     \* bytes the peer writes before it closes the stream (SpecRecv)
MaxPgOps == 2      \* operations started on one Postgres connection (SpecPg)
MaxPre == 1        \* messages the Postgres server sends before ReadyForQuery (SpecPg)

\* Protocol constants.
OkHeader == 0
EofHeader == 254
ErrHeader == 255
NullLenenc == 251
MaxPacketLen == 16777215
ColDefHeader == 3

NoPkt == [kind |-> "none", first |-> -1, len |-> 0, seq |-> 0, val |-> 0, p |-> 0, c |-> 0]

Pkt(kind, first, len, val) ==
    [kind |-> kind, first |-> first, len |-> len, seq |-> 0, val |-> val, p |-> 0, c |-> 0]

DeprecateEof == "CLIENT_DEPRECATE_EOF" \in capabilities

\* The column definitions a server sends (the fields prepare_describe reads);
\* a COLDEF packet's val is an index into them.  "None" is Option::None.
ColumnDefinitions ==
    << [field_type |-> "LONG", column |-> "id", column_alias |-> "None",
        table |-> "t", table_alias |-> "None"],
       [field_type |-> "VAR_STRING", column |-> "name", column_alias |-> "n",
        table |-> "t", table_alias |-> "u"] >>

----
\* The server.  srv.queue holds the commands received whose answer is not
\* complete; the head is the one being answered, srv.ph the position in its
\* answer.

Goto(s, ph, left) == [s EXCEPT !.ph = ph, !.left = left]

Finish(s) == [s EXCEPT !.queue = Tail(@), !.ph = "start", !.left = 0, !.rows = 0, !.seq = 0]

AfterParamDefs(s) == IF s.c > 0 THEN Goto(s, "cdefs", s.c) ELSE Finish(s)

AfterPrepareOk(s) == IF s.p > 0 THEN Goto(s, "pdefs", s.p) ELSE AfterParamDefs(s)

Terminal ==
    IF DeprecateEof
    THEN { Pkt("OK", EofHeader, l, a) : l \in {7, MaxPacketLen - 1}, a \in 0..MaxAffected }
    ELSE { Pkt("EOF", EofHeader, 5, 0) }

ServerResp(s) ==
    LET cmd == Head(s.queue).cmd
        err == [pkt |-> Pkt("ERR", ErrHeader, 9, 0), to |-> Finish(s)]
        ok  == { [pkt |-> Pkt("OK", OkHeader, 7, a), to |-> Finish(s)] : a \in 0..MaxAffected }
        eof(t) == [pkt |-> Pkt("EOF", EofHeader, 5, 0), to |-> t]
        def(t) == [pkt |-> Pkt("COLDEF", ColDefHeader, 24, 1), to |-> t]
        coldef(v) == Pkt("COLDEF", ColDefHeader, 24, v)
    IN
    CASE s.ph = "start" /\ cmd \in {"ComInitDb", "ComQuery"} -> ok \cup {err}
      [] s.ph = "start" /\ cmd = "ComPing" ->
            ok \cup {err, [pkt |-> Pkt("OK", EofHeader, 7, 0), to |-> Finish(s)],
                     [pkt |-> Pkt("OTHER", 1, 5, 0), to |-> Finish(s)]}
      [] s.ph = "start" /\ cmd = "ComSetOption" ->
            { IF DeprecateEof THEN [pkt |-> Pkt("OK", EofHeader, 7, 0), to |-> Finish(s)]
              ELSE eof(Finish(s)), err }
      [] s.ph = "start" /\ cmd = "ComStmtPrepare" ->
            { [pkt |-> [Pkt("PREPOK", OkHeader, 12, 0) EXCEPT !.p = p, !.c = c],
               to |-> AfterPrepareOk([s EXCEPT !.p = p, !.c = c,
                                               !.pdefs = <<>>, !.cdefs = <<>>])]
              : p \in 0..MaxParams, c \in 0..MaxCols } \cup {err}
      [] s.ph = "start" /\ cmd = "ComStmtExecute" ->
            (IF s.c = 0 THEN ok
             ELSE { [pkt |-> Pkt("COLCOUNT", s.c, 1, s.c), to |-> Goto(s, "rdefs", s.c)] })
            \cup {err}
      [] s.ph = "pdefs" ->
            \* parameters: the definitions in turn
            { LET t == [s EXCEPT !.pdefs = Append(@, v)] IN
              [pkt |-> coldef(v),
               to |-> IF s.left > 1 THEN Goto(t, "pdefs", s.left - 1)
                      ELSE IF DeprecateEof THEN AfterParamDefs(t) ELSE Goto(t, "peof", 0)]
              : v \in {(Len(s.pdefs) % Len(ColumnDefinitions)) + 1} }
      [] s.ph = "peof" -> { eof(AfterParamDefs(s)) }
      [] s.ph = "cdefs" ->
            { LET t == [s EXCEPT !.cdefs = Append(@, v)] IN
              [pkt |-> coldef(v),
               to |-> IF s.left > 1 THEN Goto(t, "cdefs", s.left - 1)
                      ELSE IF DeprecateEof THEN Finish(t) ELSE Goto(t, "ceof", 0)]
              : v \in DOMAIN ColumnDefinitions }
      [] s.ph = "ceof" -> { eof(Finish(s)) }
      [] s.ph = "rdefs" ->
            { def(IF s.left > 1 THEN Goto(s, "rdefs", s.left - 1)
                  ELSE IF DeprecateEof THEN Goto(s, "rows", 0) ELSE Goto(s, "reof", 0)) }
      [] s.ph = "reof" -> { eof(Goto(s, "rows", 0)) }
      [] s.ph = "rows" ->
            (IF s.rows < MaxRows
             THEN { [pkt |-> Pkt("ROW", OkHeader, 9, s.rows + 1),
                     to |-> [s EXCEPT !.rows = @ + 1,
                                      !.rowsSent = Append(@, s.rows + 1)]],
                    [pkt |-> Pkt("ROW", EofHeader, MaxPacketLen, s.rows + 1),
                     to |-> [Goto(s, "cont", 0) EXCEPT
                                !.rowsSent = Append(@, s.rows + 1)]] }
             ELSE {})
            \cup { [pkt |-> t, to |-> Finish(s)] : t \in Terminal } \cup {err}
      [] s.ph = "cont" ->
            { [pkt |-> Pkt("CONT", IF l = 0 THEN -1 ELSE 97, l, s.rows + 1),
               to |-> [Goto(s, "rows", 0) EXCEPT !.rows = @ + 1,
                                                 !.rowsSent = Append(@, s.rows + 1)]]
              : l \in {0, 5} }
      [] OTHER -> {}

BaseSeq(s) == IF s.ph = "start" THEN (Head(s.queue).seq + 1) % 256 ELSE s.seq

SeqChoices(s) ==
    {BaseSeq(s)} \cup (IF s.skips < MaxSkips THEN {(BaseSeq(s) + 1) % 256, 255} ELSE {})

\* pdefs, cdefs: the definitions sent for the latest prepare, until the
\* answer to another command begins.
ForgetsDefs(s) == s.ph = "start" /\ Head(s.queue).cmd # "ComStmtPrepare"

ServerOut ==
    IF srv.queue = <<>> THEN {}
    ELSE { [pkt |-> [r.pkt EXCEPT !.seq = q],
            srv |-> [r.to EXCEPT !.seq = IF r.to.ph = "start" THEN 0 ELSE (q + 1) % 256,
                                 !.skips = IF q = BaseSeq(srv) THEN @ ELSE @ + 1,
                                 !.pdefs = IF ForgetsDefs(srv) THEN <<>> ELSE @,
                                 !.cdefs = IF ForgetsDefs(srv) THEN <<>> ELSE @,
                                 !.rowsSent = IF srv.ph = "start" THEN <<>> ELSE @]]
           : r \in ServerResp(srv), q \in SeqChoices(srv) }

----
\* The client side of sqlx-core's mysql::Connection.

\* unread: the commands of earlier operations whose answer was not read to
\* its end when the operation began.
NoFrame ==
    [params |-> 0, columns |-> 0, left |-> 0, param_types |-> <<>>, result_fields |-> <<>>,
     ncols |-> 0, rows |-> 0, row |-> 0, yielded |-> <<>>, decoded |-> "none",
     unread |-> 0]

\* count: the packets the running operation has received.
NoRecv == [pkt |-> NoPkt, expected |-> 0, at |-> "none", count |-> 0]

NoResult == [op |-> "none", status |-> "none", value |-> <<>>, why |-> ""]

\* start_sequence: the sequence number a new command starts with.
start_sequence == 0

\* write: the packet gets the current sequence number, which then advances.
\* (At most three packets are written after a start_sequence, so the u8 cannot
\* overflow here.)
write(w, cmd) ==
    [out |-> Append(w.out, [cmd |-> cmd, seq |-> w.seq]), seq |-> w.seq + 1]

RECURSIVE WriteAll(_, _)
WriteAll(w, cmds) ==
    IF cmds = <<>> THEN w ELSE WriteAll(write(w, Head(cmds)), Tail(cmds))

\* stream.flush: the buffered packets reach the server, which queues every
\* command but ComQuit (it answers ComQuit by closing the connection).
Deliver(s, out) ==
    [s EXCEPT !.queue = @ \o SelectSeq(out, LAMBDA m : m.cmd # "ComQuit")]

\* start_sequence, write each of cmds, flush.
Command(cmds, to) ==
    LET w == WriteAll([out |-> <<>>, seq |-> start_sequence], cmds) IN
    /\ driver = "core"
    /\ sent' = (IF pc = "idle" THEN <<>> ELSE sent) \o w.out
    /\ next_seq_no' = w.seq
    /\ srv' = Deliver(srv, w.out)
    /\ pc' = to
    /\ UNCHANGED <<driver, capabilities, seq_no>>

Begin(o) ==
    /\ pc = "idle"
    /\ nops < MaxOps
    /\ nops' = nops + 1
    /\ op' = o
    /\ frame' = [NoFrame EXCEPT !.unread = Len(srv.queue)]
    /\ lastRecv' = NoRecv
    /\ UNCHANGED <<recvVars, pgVars, auxVars>>

Return(status, f) ==
    /\ pc' = "idle"
    /\ frame' = f
    /\ result' = [op |-> op, status |-> status, why |-> "",
                  value |-> IF status # "ok" THEN <<>>
                            ELSE CASE op = "execute" -> <<f.rows>>
                                   [] op = "fetch" -> f.yielded
                                   [] op = "fetch_optional" ->
                                          IF f.row = 0 THEN <<>> ELSE <<f.row>>
                                   [] op = "describe" ->
                                          <<f.param_types, f.result_fields>>
                                   [] OTHER -> <<>>]

Abort(why) ==
    /\ pc' = "panic"
    /\ frame' = frame
    /\ result' = [op |-> op, status |-> "panic", why |-> why, value |-> <<>>]

Step(to, f) ==
    /\ pc' = to
    /\ frame' = f
    /\ UNCHANGED result

\* try_receive line 95: header.get_u8()? + 1 on a u8.  The addition overflows
\* for 255: a build with overflow checks panics (the sum 256 stands for that),
\* one without wraps to 0.
SeqAfter(s) == IF s = 255 THEN {256, 0} ELSE {s + 1}

\* The packet receive returns to its caller.
packet == lastRecv'.pkt

\* receive / try_receive: takes the next packet off the stream, whatever its
\* sequence number, and sets next_seq_no from it.  Blocks while the server has
\* nothing to send.
receive(at, handled) ==
    /\ driver = "core"
    /\ pc = at
    /\ \E o \in ServerOut : \E n \in SeqAfter(o.pkt.seq) :
         /\ srv' = o.srv
         /\ IF n > 255
            THEN /\ next_seq_no' = next_seq_no
                 /\ lastRecv' = NoRecv
                 /\ Abort("attempt to add with overflow")
            ELSE /\ next_seq_no' = n
                 /\ lastRecv' = [pkt |-> o.pkt, expected |-> next_seq_no, at |-> at,
                                 count |-> lastRecv.count + 1]
                 /\ handled
    /\ UNCHANGED <<driver, capabilities, seq_no, op, nops, sent>>
    /\ UNCHANGED <<recvVars, pgVars, auxVars>>

\* Decoders of the mysql::protocol module.
OkPacket_decode(pkt) == pkt.first \in {OkHeader, EofHeader} /\ pkt.len >= 7

EofPacket_decode(pkt) == pkt.first = EofHeader /\ pkt.len >= 5

ComStmtPrepareOk_decode(pkt) == pkt.first = OkHeader /\ pkt.len >= 12

ColumnDefinitionPacket_decode(pkt) == pkt.kind = "COLDEF"

\* The fields of a decoded column definition.
ColumnDefinitionPacket_fields(pkt) == ColumnDefinitions[pkt.val]

\* Option::or
Option_or(a, b) == IF a # "None" THEN a ELSE b

\* ResultField that takes the column name also when there is an alias.
ResultField_ColumnName(column) ==
    [name |-> column.column,
     table_id |-> Option_or(column.table_alias, column.table),
     type_id |-> column.field_type]

\* The ResultField prepare_describe builds from a column definition.
ResultField(column) ==
    [name |-> Option_or(column.column_alias, column.column),
     table_id |-> Option_or(column.table_alias, column.table),
     type_id |-> column.field_type]

\* ColumnCountPacket: one length-encoded integer; -1 when it does not decode.
ColumnCountPacket_decode(pkt) ==
    IF pkt.len = 0 THEN -1
    ELSE IF pkt.first < NullLenenc THEN pkt.first
    ELSE IF pkt.first = NullLenenc THEN 0
    ELSE -1

----
\* Operations of mysql::Connection.

\* close: start_sequence, ComQuit, flush, shut the socket down ("closed").
\* When the flush fails its error is returned at once, before the shutdown:
\* the connection is dropped with ComQuit still in its buffer ("dropped").
close ==
    /\ Begin("close")
    /\ \/ /\ Command(<<"ComQuit">>, "closed")
          /\ result' = [op |-> "close", status |-> "ok", value |-> <<>>, why |-> ""]
       \/ /\ driver = "core"
          /\ sent' = write([out |-> <<>>, seq |-> start_sequence], "ComQuit").out
          /\ next_seq_no' = write([out |-> <<>>, seq |-> start_sequence], "ComQuit").seq
          /\ pc' = "dropped"
          /\ result' = [op |-> "close", status |-> "err_io", value |-> <<>>, why |-> "flush"]
          /\ UNCHANGED <<driver, capabilities, seq_no, srv>>

\* ping: ComPing, flush, then receive_ok_or_err.
ping == Begin("ping") /\ Command(<<"ComPing">>, "ping") /\ result' = NoResult

\* receive_ok_or_err that takes only 0x00 for the header of an OK packet.
receive_ok_or_err_ZeroOnly(pkt) ==
    IF pkt.len = 0 THEN Abort("index out of bounds")
    ELSE IF pkt.first = OkHeader
         THEN Return(IF OkPacket_decode(pkt) THEN "ok" ELSE "err_protocol", frame)
    ELSE IF pkt.first = ErrHeader THEN Return("err_db", frame)
    ELSE Return("err_protocol", frame)

\* receive_ok_or_err: an OK packet, or ERR as an error value.
receive_ok_or_err(pkt) ==
    IF pkt.len = 0 THEN Abort("index out of bounds")
    ELSE IF pkt.first \in {EofHeader, OkHeader}
         THEN Return(IF OkPacket_decode(pkt) THEN "ok" ELSE "err_protocol", frame)
    ELSE IF pkt.first = ErrHeader THEN Return("err_db", frame)
    ELSE Return("err_protocol", frame)

ping_receive_ok_or_err == receive("ping", receive_ok_or_err(packet))

\* send_prepare, first half: flush, start_sequence, ComStmtPrepare, flush.
\* It opens execute, fetch and fetch_optional (through
\* prepare_ignore_describe) and describe (through prepare_describe).
send_prepare(o) ==
    Begin(o) /\ Command(<<"ComStmtPrepare">>, "send_prepare") /\ result' = NoResult

execute == send_prepare("execute")

fetch == send_prepare("fetch")

fetch_optional == send_prepare("fetch_optional")

describe == send_prepare("describe")

\* check_eof reads a packet only when EOFs are not deprecated.
check_eof(to_eof, to_next) == IF DeprecateEof THEN to_next ELSE to_eof

\* Where prepare_ignore_describe goes on after the parameter definitions.
ignore_describe_columns(f) == IF f.columns > 0 THEN "pid_columns" ELSE "send_execute"

\* Where prepare_describe goes on after the parameter definitions' check_eof,
\* and after the column loop.
describe_after_columns == check_eof("pd_columns_eof", "return")

describe_columns(f) == IF f.columns > 0 THEN "pd_columns" ELSE describe_after_columns

Continue(to, f) ==
    IF to = "return" THEN Return("ok", f)
    ELSE Step(to, [f EXCEPT !.left = CASE to \in {"pd_params", "pid_params"} -> f.params
                                       [] to \in {"pd_columns", "pid_columns"} -> f.columns
                                       [] to = "rcd_columns" -> f.ncols
                                       [] OTHER -> 0])

\* send_prepare, second half: COM_STMT_PREPARE_OK or ERR; then the caller
\* enters its parameter loop.
send_prepare_receive_packet(pkt) ==
    IF pkt.len = 0 THEN Abort("index out of bounds")
    ELSE IF pkt.first = ErrHeader THEN Return("err_db", frame)
    ELSE IF ~ComStmtPrepareOk_decode(pkt) THEN Return("err_protocol", frame)
    ELSE LET f == [frame EXCEPT !.params = pkt.p, !.columns = pkt.c] IN
         IF op = "describe"
         THEN Continue(IF f.params > 0 THEN "pd_params"
                       ELSE check_eof("pd_params_eof", describe_columns(f)), f)
         ELSE Continue(IF f.params > 0 THEN "pid_params" ELSE ignore_describe_columns(f), f)

send_prepare_receive == receive("send_prepare", send_prepare_receive_packet(packet))

\* One pass of a "for _ in 0..n" loop over column definitions: to_loop while
\* passes remain, to_done after the last.
column_loop(pkt, f, to_done) ==
    IF ~ColumnDefinitionPacket_decode(pkt) THEN Return("err_protocol", frame)
    ELSE IF frame.left > 1 THEN Step(pc, [f EXCEPT !.left = frame.left - 1])
    ELSE Continue(to_done, f)

eof_packet(pkt, to_next) ==
    IF EofPacket_decode(pkt) THEN Continue(to_next, frame) ELSE Return("err_protocol", frame)

\* prepare_ignore_describe: params column definitions and check_eof when
\* params > 0, the same for columns, then the statement id.
prepare_ignore_describe_params ==
    receive("pid_params",
            column_loop(packet, frame,
                        check_eof("pid_params_eof", ignore_describe_columns(frame))))

prepare_ignore_describe_params_eof ==
    receive("pid_params_eof", eof_packet(packet, ignore_describe_columns(frame)))

prepare_ignore_describe_columns ==
    receive("pid_columns",
            column_loop(packet, frame, check_eof("pid_columns_eof", "send_execute")))

prepare_ignore_describe_columns_eof ==
    receive("pid_columns_eof", eof_packet(packet, "send_execute"))

\* prepare_describe: params column definitions, check_eof, columns column
\* definitions, check_eof; both check_eof calls are unconditional.
prepare_describe_params ==
    receive("pd_params",
            column_loop(packet, [frame EXCEPT !.param_types =
                                       Append(@, ColumnDefinitionPacket_fields(packet).field_type)],
                        check_eof("pd_params_eof", describe_columns(frame))))

prepare_describe_params_eof ==
    receive("pd_params_eof", eof_packet(packet, describe_columns(frame)))

prepare_describe_columns ==
    receive("pd_columns",
            column_loop(packet, [frame EXCEPT !.result_fields =
                                       Append(@, ResultField(ColumnDefinitionPacket_fields(packet)))],
                        describe_after_columns))

prepare_describe_columns_eof ==
    receive("pd_columns_eof", eof_packet(packet, "return"))

\* send_execute: start_sequence, ComStmtExecute, flush.
send_execute ==
    /\ pc = "send_execute"
    /\ Command(<<"ComStmtExecute">>, "rcd_count")
    /\ UNCHANGED <<op, nops, frame, result, lastRecv>>
    /\ UNCHANGED <<recvVars, pgVars, auxVars>>

\* result_column_defs: the column-count packet (ERR is returned as an
\* error), column_count column definitions, check_eof.
result_column_defs_count_packet(pkt) ==
    IF pkt.len = 0 THEN Abort("index out of bounds")
    ELSE IF pkt.first = ErrHeader THEN Return("err_db", frame)
    ELSE IF ColumnCountPacket_decode(pkt) < 0 THEN Return("err_protocol", frame)
    ELSE LET f == [frame EXCEPT !.ncols = ColumnCountPacket_decode(pkt)] IN
         Continue(IF f.ncols > 0 THEN "rcd_columns" ELSE check_eof("rcd_eof", "rows"), f)

result_column_defs_count == receive("rcd_count", result_column_defs_count_packet(packet))

result_column_defs_columns ==
    receive("rcd_columns", column_loop(packet, frame, check_eof("rcd_eof", "rows")))

result_column_defs_eof == receive("rcd_eof", eof_packet(packet, "rows"))

\* RowLoopBranch with the length test left out.
RowLoopBranch_NoLength(pkt) ==
    IF pkt.first = EofHeader THEN "end"
    ELSE IF pkt.first = ErrHeader THEN "err"
    ELSE "row"

\* The branch the row loops of execute, fetch and fetch_optional take on a
\* packet: 0xFE with a body below 0xFFFFFF ends the rows, 0xFF is an ERR
\* packet, anything else is a row.
RowLoopBranch(pkt) ==
    IF pkt.first = EofHeader /\ pkt.len < MaxPacketLen THEN "end"
    ELSE IF pkt.first = ErrHeader THEN "err"
    ELSE "row"

\* The decoder the row loops apply to the packet that ends the rows.
TerminalDecoder == IF ~DeprecateEof THEN "EofPacket" ELSE "OkPacket"

row_loop(pkt, f_row) ==
    IF pkt.len = 0 THEN Abort("index out of bounds")
    ELSE CASE RowLoopBranch(pkt) = "end" ->
                 LET f == [frame EXCEPT !.decoded = TerminalDecoder] IN
                 IF (IF TerminalDecoder = "EofPacket"
                     THEN EofPacket_decode(pkt) ELSE OkPacket_decode(pkt))
                 THEN Return("ok", f) ELSE Return("err_protocol", f)
           [] RowLoopBranch(pkt) = "err" -> Abort("received db err")
           [] OTHER -> Step("rows", [f_row EXCEPT !.decoded = "ResultRow"])

\* execute: counts the rows it decodes and returns the count.
execute_loop ==
    /\ op = "execute"
    /\ receive("rows", row_loop(packet, [frame EXCEPT !.rows = @ + 1]))

\* fetch that yields only the row it decoded last.
fetch_loop_KeepsLast ==
    /\ op = "fetch"
    /\ receive("rows", row_loop(packet, [frame EXCEPT !.yielded = <<packet.val>>]))

\* fetch: yields every row it decodes.
fetch_loop ==
    /\ op = "fetch"
    /\ receive("rows", row_loop(packet, [frame EXCEPT !.yielded = Append(@, packet.val)]))

\* fetch_optional: keeps the row it decoded last.
fetch_optional_loop ==
    /\ op = "fetch_optional"
    /\ receive("rows", row_loop(packet, [frame EXCEPT !.row = packet.val]))

\* send_raw: three commands written after one start_sequence and flushed
\* together, then their three answers.
send_raw ==
    /\ Begin("send_raw")
    /\ Command(<<"ComSetOption", "ComQuery", "ComSetOption">>, "send_raw_on")
    /\ result' = NoResult

expect_eof_or_err(pkt, to) ==
    IF pkt.len = 0 THEN Abort("index out of bounds")
    ELSE IF pkt.first = EofHeader THEN eof_packet(pkt, to)
    ELSE IF pkt.first = ErrHeader THEN Return("err_db", frame)
    ELSE Return("err_protocol", frame)

send_raw_on == receive("send_raw_on", expect_eof_or_err(packet, "send_raw_query"))

send_raw_query ==
    receive("send_raw_query",
            IF packet.len = 0 THEN Abort("index out of bounds")
            ELSE IF packet.first = ErrHeader THEN Return("err_db", frame)
            ELSE Continue("send_raw_off", frame))

send_raw_off == receive("send_raw_off", expect_eof_or_err(packet, "return"))

----
\* mason-mariadb's Connection: send writes one packet numbered
\* context.seq_no and flushes it.
send(cmd) ==
    /\ driver = "mason"
    /\ seq_no' = 0
    /\ sent' = <<[cmd |-> cmd, seq |-> seq_no']>>
    /\ srv' = Deliver(srv, sent')
    /\ UNCHANGED <<driver, capabilities, next_seq_no>>

\* quit, query and select_db send their command and return.
mason_return(o) ==
    /\ Begin(o)
    /\ result' = [op |-> o, status |-> "ok", value |-> <<>>, why |-> ""]

quit == mason_return("quit") /\ send("ComQuit") /\ pc' = "closed"

query == mason_return("query") /\ send("ComQuery") /\ pc' = "idle"

select_db == mason_return("select_db") /\ send("ComInitDb") /\ pc' = "idle"

\* ping sends ComPing, takes the next packet and deserializes it as OkPacket.
mason_ping == Begin("ping") /\ send("ComPing") /\ pc' = "mason_ping" /\ result' = NoResult

mason_ping_next_bytes ==
    /\ driver = "mason"
    /\ pc = "mason_ping"
    /\ \E o \in ServerOut :
         /\ srv' = o.srv
         /\ lastRecv' = [pkt |-> o.pkt, expected |-> o.pkt.seq, at |-> pc,
                       count |-> lastRecv.count + 1]
         /\ Return(IF o.pkt.first \in {OkHeader, EofHeader} THEN "ok" ELSE "err", frame)
    /\ UNCHANGED <<driver, capabilities, next_seq_no, seq_no, op, nops, sent>>
    /\ UNCHANGED <<recvVars, pgVars, auxVars>>

----
\* The values the variables of a specification keep under the other ones.
PacketIdle ==
    /\ driver = "core"
    /\ capabilities = {}
    /\ seq_no = 1
    /\ pc = "idle"
    /\ op = "none"
    /\ frame = NoFrame
    /\ result = NoResult
    /\ nops = 0
    /\ sent = <<>>
    /\ srv = [queue |-> <<>>, ph |-> "start", left |-> 0, rows |-> 0, p |-> 0, c |-> 0,
              seq |-> 0, skips |-> 0, pdefs |-> <<>>, cdefs |-> <<>>,
              rowsSent |-> <<>>]
    /\ lastRecv = NoRecv

RecvIdle ==
    /\ input = <<>>
    /\ stream = <<>>
    /\ rbuf = <<>>
    /\ frames = <<>>
    /\ rv = "open"
    /\ hit_eof = FALSE

\* Capabilities::default()
ClientRequested == {"CLIENT_MYSQL"}

EstIdle ==
    /\ est_pc = "initial"
    /\ ctx_capabilities = ClientRequested
    /\ est_offered = {}
    /\ est_sent = <<>>
    /\ est_reply = -1
    /\ est_result = "none"

FnIdle ==
    /\ call = [fn |-> "none", arg |-> <<>>]
    /\ ret = [res |-> "pending"]

PoolIdle ==
    /\ pool = [max |-> 0, idle |-> <<>>, size |-> 0, waiters |-> <<>>]
    /\ conns = <<>>
    /\ tasks = <<>>
    /\ started = 0
    /\ returned = [task |-> 0, result |-> "none"]

AuxIdle == EstIdle /\ FnIdle /\ PoolIdle

PgIdle ==
    /\ stream_readable = FALSE
    /\ stream_eof = FALSE
    /\ pg_rbuf = <<>>
    /\ wire = <<>>
    /\ peer_closed = FALSE
    /\ pg_pc = "idle"
    /\ pg_nops = 0
    /\ pg_result = "none"
    /\ pg_sent = <<>>
    /\ pg_decoded = <<>>
    /\ pg_delivered = <<>>

Init ==
    /\ RecvIdle
    /\ PgIdle
    /\ AuxIdle
    /\ driver \in {"core", "mason"}
    /\ capabilities \in SUBSET {"CLIENT_DEPRECATE_EOF"}
    /\ next_seq_no \in (IF driver = "core" THEN {0, 3} ELSE {0})
    /\ seq_no = 1
    /\ pc = "idle"
    /\ op = "none"
    /\ frame = NoFrame
    /\ result = NoResult
    /\ nops = 0
    /\ sent = <<>>
    /\ srv = [queue |-> <<>>, ph |-> "start", left |-> 0, rows |-> 0, p |-> 0, c |-> 0,
              seq |-> 0, skips |-> 0, pdefs |-> <<>>, cdefs |-> <<>>,
              rowsSent |-> <<>>]
    /\ lastRecv = NoRecv

Next ==
    \/ close
    \/ ping
    \/ ping_receive_ok_or_err
    \/ execute
    \/ fetch
    \/ fetch_optional
    \/ describe
    \/ send_prepare_receive
    \/ prepare_ignore_describe_params
    \/ prepare_ignore_describe_params_eof
    \/ prepare_ignore_describe_columns
    \/ prepare_ignore_describe_columns_eof
    \/ prepare_describe_params
    \/ prepare_describe_params_eof
    \/ prepare_describe_columns
    \/ prepare_describe_columns_eof
    \/ send_execute
    \/ result_column_defs_count
    \/ result_column_defs_columns
    \/ result_column_defs_eof
    \/ execute_loop
    \/ fetch_loop
    \/ fetch_optional_loop
    \/ send_raw
    \/ send_raw_on
    \/ send_raw_query
    \/ send_raw_off
    \/ quit
    \/ query
    \/ select_db
    \/ mason_ping
    \/ mason_ping_next_bytes

Spec == Init /\ [][Next]_vars

----
\* Properties of the MySQL connection, checked under Spec.

\* C1: every command packet the client writes to start a command carries
\* sequence number 0, whatever was sent or received before, the three
\* commands of send_raw included.
C1_CommandsStartAtZero == \A i \in DOMAIN sent : sent[i].seq = 0

\* C2: a packet is accepted by receive only when its sequence number is the
\* next expected inbound sequence number (otherwise the receive fails), so
\* the packets accepted during a command are numbered contiguously.
C2_SequenceChecked ==
    (driver = "core" /\ lastRecv.at # "none") => lastRecv.pkt.seq = lastRecv.expected

\* C3: at most one command awaits its answer at any time, and an operation
\* that returned successfully has left no command awaiting its answer.
C3_OneCommandInFlight ==
    /\ Len(srv.queue) <= 1
    /\ (pc = "idle" /\ result.status = "ok") => srv.queue = <<>>

\* C4: an ERR packet received in the row loop of execute, fetch or
\* fetch_optional is returned as a DatabaseError value, the program does not
\* abort, and the connection is left at a command boundary.
C4_ErrInRowLoopIsReturned ==
    (lastRecv.at = "rows" /\ lastRecv.pkt.first = ErrHeader)
        => (pc = "idle" /\ result.status = "err_db")

\* C7: in the row loops a packet starting with 0xFE ends the result set when
\* its body is shorter than 0xFFFFFF, decoded as OK under
\* CLIENT_DEPRECATE_EOF and as EOF otherwise; when its body is 0xFFFFFF bytes
\* or longer it is decoded as a row and the loop goes on.
C7_RowLoopEofRule ==
    (lastRecv.at = "rows" /\ lastRecv.pkt.first = EofHeader) =>
        IF lastRecv.pkt.len < MaxPacketLen
        THEN /\ pc = "idle"
             /\ frame.decoded = (IF DeprecateEof THEN "OkPacket" ELSE "EofPacket")
        ELSE /\ pc = "rows"
             /\ frame.decoded = "ResultRow"

C7_Witness ==
    /\ lastRecv.at = "rows"
    /\ lastRecv.pkt.first = EofHeader
    /\ lastRecv.pkt.len >= MaxPacketLen
    /\ pc = "rows"
    /\ frame.decoded = "ResultRow"

\* C8: execute returns the affected-rows value of the terminal OK packet.
C8_ExecuteReturnsAffectedRows ==
    (pc = "idle" /\ result.op = "execute" /\ result.status = "ok" /\ lastRecv.pkt.kind = "OK")
        => result.value = <<lastRecv.pkt.val>>

\* C9: when the server answers execute with a single OK packet, execute
\* completes after that packet and reads no further one.
C9_OkOnlyCompletesExecute ==
    (op = "execute" /\ lastRecv.at = "rcd_count" /\ lastRecv.pkt.kind = "OK")
        => (pc = "idle" /\ result.status = "ok")

----
\* C15: close writes ComQuit with sequence number 0 and shuts the socket
\* down, also when writing or flushing ComQuit fails.
C15_CloseShutsDown ==
    result.op = "close" =>
        /\ pc = "closed"
        /\ Len(sent) = 1
        /\ sent[1] = [cmd |-> "ComQuit", seq |-> 0]

\* C16: a ping that has returned wrote exactly one packet, ComPing, and
\* consumed exactly the one packet of the answer; it succeeded on an OK
\* packet (first byte 0x00 or 0xFE, and it decodes as OK), returned the
\* server's error on an ERR packet (0xFF), and a protocol error otherwise.
C16_PingOutcome ==
    (driver = "core" /\ pc = "idle" /\ result.op = "ping") =>
        /\ Len(sent) = 1
        /\ sent[1].cmd = "ComPing"
        /\ lastRecv.at = "ping"
        /\ lastRecv.count = 1
        /\ result.status =
               CASE /\ lastRecv.pkt.first \in {OkHeader, EofHeader}
                    /\ OkPacket_decode(lastRecv.pkt) -> "ok"
                 [] lastRecv.pkt.first = ErrHeader -> "err_db"
                 [] OTHER -> "err_protocol"

C16_Witness ==
    /\ driver = "core"
    /\ pc = "idle"
    /\ result.op = "ping"
    /\ lastRecv.pkt.first = EofHeader
    /\ result.status = "ok"

\* The Describe of the definitions the server sent for its last prepare.
RECURSIVE MapTypes(_)
MapTypes(vs) ==
    IF vs = <<>> THEN <<>>
    ELSE <<ColumnDefinitions[Head(vs)].field_type>> \o MapTypes(Tail(vs))

RECURSIVE MapFields(_)
MapFields(vs) ==
    IF vs = <<>> THEN <<>>
    ELSE <<[name |-> IF ColumnDefinitions[Head(vs)].column_alias # "None"
                     THEN ColumnDefinitions[Head(vs)].column_alias
                     ELSE ColumnDefinitions[Head(vs)].column,
            table_id |-> IF ColumnDefinitions[Head(vs)].table_alias # "None"
                         THEN ColumnDefinitions[Head(vs)].table_alias
                         ELSE ColumnDefinitions[Head(vs)].table,
            type_id |-> ColumnDefinitions[Head(vs)].field_type]>> \o MapFields(Tail(vs))

\* C17: a describe that got the prepare response (announcing p parameters
\* and c columns) and has returned, returned a Describe; it holds exactly
\* the p parameter type IDs and the c result fields of the ColumnDefinition
\* packets the server sent, in the server's order, a field's name being the
\* alias when present and the column name otherwise.
C17_DescribeReturnsAll ==
    (pc = "idle" /\ result.op = "describe" /\ nops = 1 /\ lastRecv.count >= 1
                 /\ ~(lastRecv.at = "send_prepare" /\ lastRecv.pkt.kind # "PREPOK")) =>
        /\ result.status = "ok"
        /\ Len(srv.pdefs) = srv.p
        /\ Len(srv.cdefs) = srv.c
        /\ result.value = <<MapTypes(srv.pdefs), MapFields(srv.cdefs)>>

\* The same for the prepare responses after which the server sends an EOF
\* packet wherever prepare_describe reads one: p >= 1 and c >= 1, or EOF
\* packets deprecated.
C17_DescribeWithEofs ==
    (pc = "idle" /\ result.op = "describe" /\ nops = 1 /\ lastRecv.count >= 1
                 /\ ~(lastRecv.at = "send_prepare" /\ lastRecv.pkt.kind # "PREPOK")
                 /\ (DeprecateEof \/ (srv.p >= 1 /\ srv.c >= 1))) =>
        /\ result.status = "ok"
        /\ Len(srv.pdefs) = srv.p
        /\ Len(srv.cdefs) = srv.c
        /\ result.value = <<MapTypes(srv.pdefs), MapFields(srv.cdefs)>>

C17_Witness ==
    /\ pc = "idle" /\ result.op = "describe" /\ result.status = "ok"
    /\ ~DeprecateEof
    /\ Len(result.value[1]) = 1
    /\ Len(result.value[2]) = 1
    /\ result.value[2][1].name = "n"

C29_SequenceWraps ==
    ~(pc = "panic" /\ result.why = "attempt to add with overflow")

\* The packets of the answer to a prepare with p parameters and c columns:
\* the prepare-OK packet, the definitions, and an EOF after each group that
\* is not empty when EOFs are not deprecated.
PreparePackets(p, c) ==
    1 + p + c + (IF DeprecateEof THEN 0
                 ELSE (IF p > 0 THEN 1 ELSE 0) + (IF c > 0 THEN 1 ELSE 0))

PrepareReturned ==
    \/ op \in {"execute", "fetch", "fetch_optional"} /\ pc = "send_execute"
    \/ op = "describe" /\ pc = "idle" /\ result.op = "describe" /\ result.status = "ok"

PrepareReceiving ==
    pc \in {"pid_params", "pid_params_eof", "pid_columns", "pid_columns_eof",
            "pd_params", "pd_params_eof", "pd_columns", "pd_columns_eof"}

\* C33: on a connection with no answer left unread, prepare_describe and
\* prepare_ignore_describe read the packets of the answer to the prepare and
\* no more: when either returns it has received the prepare-OK packet, the
\* p + c definitions and the EOF of each non-empty group, and while either
\* is about to receive, a packet of that answer is still to come.
C33_PrepareConsumesAnswer ==
    frame.unread = 0 =>
        /\ PrepareReturned => lastRecv.count = PreparePackets(frame.params, frame.columns)
        /\ PrepareReceiving => lastRecv.count < PreparePackets(frame.params, frame.columns)

\* C38: on a connection with no answer left unread, fetch_optional returns
\* after it has read the terminal packet of the response, nothing of the
\* response being left unread; it returns None exactly when the response
\* held no row, and else the first row of the response.
C38_FetchOptionalFirstRow ==
    (op = "fetch_optional" /\ pc = "idle" /\ result.status = "ok"
                           /\ lastRecv.at = "rows" /\ frame.unread = 0) =>
        /\ lastRecv.pkt.first = EofHeader
        /\ lastRecv.pkt.len < MaxPacketLen
        /\ srv.queue = <<>>
        /\ (result.value = <<>>) <=> (srv.rowsSent = <<>>)
        /\ srv.rowsSent # <<>> => result.value = <<Head(srv.rowsSent)>>

\* C11: receive never hands its caller the packet that continues a packet of
\* length 2^24 - 1 as a packet of its own; it is part of the logical packet
\* the long packet began.
C11_LargePacketContinuation ==
    lastRecv.pkt.kind # "CONT"

----
\* SpecRecv: try_receive over the bytes of the stream.

\* The byte values the peer writes.
Bytes == {0, 1, 255}

Streams == UNION { [1..n -> Bytes] : n \in 0..MaxStream }

\* BufStream::peek(n): the next n bytes, or None when the stream ends before
\* n bytes have arrived.
peek(st, n) ==
    IF Len(st) >= n THEN [some |-> TRUE, bytes |-> SubSeq(st, 1, n)]
    ELSE [some |-> FALSE, bytes |-> <<>>]

\* BufStream::consume(n)
consume(st, n) == SubSeq(st, n + 1, Len(st))

\* get_u24::<LittleEndian>
get_u24(b) == b[1] + 256 * b[2] + 65536 * b[3]

\* try_receive with the consume(4) of the header left out.
try_receive_KeepsHeader(st) ==
    LET h == peek(st, 4) IN
    IF ~h.some
    THEN [res |-> "none", stream |-> st, hdr |-> <<>>, body |-> <<>>, seq |-> -1]
    ELSE LET len == get_u24(h.bytes)
             b   == peek(st, len)
         IN  IF ~b.some
             THEN [res |-> "none", stream |-> st, hdr |-> h.bytes, body |-> <<>>,
                   seq |-> h.bytes[4]]
             ELSE [res |-> "some", stream |-> consume(st, len), hdr |-> h.bytes,
                   body |-> SubSeq(b.bytes, 1, len), seq |-> h.bytes[4]]

\* try_receive on the stream st: what it returns (body, the slice
\* rbuf[..len]), what is left of the stream, and the header it read.
try_receive_packet(st) ==
    LET h == peek(st, 4) IN
    IF ~h.some
    THEN [res |-> "none", stream |-> st, hdr |-> <<>>, body |-> <<>>, seq |-> -1]
    ELSE LET len == get_u24(h.bytes)
             st1 == consume(st, 4)
             b   == peek(st1, len)
         IN  IF ~b.some
             THEN [res |-> "none", stream |-> st1, hdr |-> h.bytes, body |-> <<>>,
                   seq |-> h.bytes[4]]
             ELSE [res |-> "some", stream |-> consume(st1, len), hdr |-> h.bytes,
                   body |-> SubSeq(b.bytes, 1, len), seq |-> h.bytes[4]]

\* One call of try_receive.  None (the stream ended) makes receive fail with
\* UnexpectedEof.
try_receive ==
    /\ rv = "open"
    /\ LET r == try_receive_packet(stream) IN
       \E n \in (IF r.seq < 0 THEN {next_seq_no} ELSE SeqAfter(r.seq)) :
          IF n > 255
          THEN /\ rv' = "panic"
               /\ UNCHANGED <<next_seq_no, stream, rbuf, frames, hit_eof>>
          ELSE /\ next_seq_no' = n
               /\ stream' = r.stream
               /\ hit_eof' = (r.res = "none")
               /\ IF r.res = "some"
                  THEN /\ rbuf' = r.body
                       /\ frames' = Append(frames, [hdr |-> r.hdr, body |-> r.body])
                       /\ rv' = "open"
                  ELSE /\ rv' = "eof"
                       /\ UNCHANGED <<rbuf, frames>>
    /\ UNCHANGED input
    /\ UNCHANGED <<packetVars, pgVars, auxVars>>

InitRecv ==
    /\ PacketIdle
    /\ PgIdle
    /\ AuxIdle
    /\ next_seq_no = 0
    /\ input \in Streams
    /\ stream = input
    /\ rbuf = <<>>
    /\ frames = <<>>
    /\ rv = "open"
    /\ hit_eof = FALSE

NextRecv == try_receive

SpecRecv == InitRecv /\ [][NextRecv]_vars

RECURSIVE Flatten(_)
Flatten(fs) ==
    IF fs = <<>> THEN <<>> ELSE Head(fs).hdr \o Head(fs).body \o Flatten(Tail(fs))

\* C10: every successful receive returns exactly the L body bytes that
\* follow a 4-byte header whose first three bytes are L in little-endian
\* order, and consumes exactly those 4 + L bytes: the headers and bodies
\* returned so far, followed by what is left of the stream, are the bytes the
\* peer wrote.
C10_ReceiveFraming ==
    /\ \A i \in DOMAIN frames :
          LET f == frames[i] IN
          /\ Len(f.hdr) = 4
          /\ Len(f.body) = f.hdr[1] + 256 * f.hdr[2] + 65536 * f.hdr[3]
    /\ rv = "open" => Flatten(frames) \o stream = input

C10_Witness ==
    /\ Len(frames) = 2
    /\ frames[1].body # <<>>
    /\ rv = "open"

----
\* SpecFramed: mason-mariadb's Framed::next_bytes over the bytes of the stream.

\* LittleEndian::read_u24(&rbuf[0..]) on a buffer that was zeroed before the
\* read: bytes not read yet are 0.
read_u24(buf) ==
    LET at(i) == IF i <= Len(buf) THEN buf[i] ELSE 0 IN
    at(1) + 256 * at(2) + 65536 * at(3)

\* The loop of next_bytes, with buf the bytes read so far (rbuf[..len]): the
\* outcomes over every way the socket may split the stream into reads.  A read
\* of zero bytes returns Ok(Bytes::new()); otherwise the loop ends as soon as
\* len is at least packet_len, and returns the whole buffer, the bytes read
\* followed by its zeroed rest.
RECURSIVE next_bytes_loop(_, _, _)
next_bytes_loop(st, buf, packet_len) ==
    IF st = <<>>
    THEN { [eof |-> TRUE, data |-> <<>>, padded |-> FALSE, stream |-> st] }
    ELSE UNION {
           LET buf1 == buf \o SubSeq(st, 1, n)
               st1  == SubSeq(st, n + 1, Len(st))
               pl   == IF packet_len = 0 THEN read_u24(buf1) ELSE packet_len
           IN  IF pl > Len(buf1)
               THEN next_bytes_loop(st1, buf1, pl)
               ELSE { [eof |-> FALSE, data |-> buf1, padded |-> TRUE, stream |-> st1] }
           : n \in 1..Len(st) }

\* One call of next_bytes; it has no error return but that of the socket.
next_bytes ==
    /\ rv = "open"
    /\ ~hit_eof
    /\ \E r \in next_bytes_loop(stream, <<>>, 0) :
         /\ stream' = r.stream
         /\ rbuf' = r.data
         /\ hit_eof' = r.eof
         /\ frames' = Append(frames, [hdr |-> <<>>, body |-> r.data, padded |-> r.padded])
         /\ rv' = "open"
    /\ UNCHANGED input
    /\ UNCHANGED <<packetVars, pgVars, auxVars, next_seq_no>>

InitFramed ==
    /\ PacketIdle
    /\ PgIdle
    /\ AuxIdle
    /\ next_seq_no = 0
    /\ input \in Streams
    /\ stream = input
    /\ rbuf = <<>>
    /\ frames = <<>>
    /\ rv = "open"
    /\ hit_eof = FALSE

NextFramed == next_bytes

SpecFramed == InitFramed /\ [][NextFramed]_vars

\* C12: a call that finds the stream at its end fails with an unexpected-EOF
\* error; it does not return a packet.
C12_EofIsAnError ==
    hit_eof => rv = "eof"

\* C39: what next_bytes returns for a packet is the whole packet and no
\* more: the 4 header bytes and the L body bytes the header states, however
\* the socket splits them over its reads, with no byte after them that was
\* not read from the socket.
C39_NextBytesWholePacket ==
    \A i \in DOMAIN frames :
        frames[i].body # <<>> =>
            /\ Len(frames[i].body) >= 4
            /\ Len(frames[i].body) = 4 + read_u24(frames[i].body)
            /\ ~frames[i].padded

----
\* SpecPg: the Postgres connection.

\* Message tags and the transaction-status bytes of ReadyForQuery.
TagE == 69
TagN == 78
TagS == 83
TagZ == 90
TagR == 82
TagK == 75
TagC == 67
StatusI == 73
StatusT == 84
StatusE == 69

\* The bytes of the messages the server writes: tag, big-endian u32 length
\* that counts itself, payload.
ReadyForQueryBytes == <<TagZ, 0, 0, 0, 5, StatusI>>

\* Before it, an ErrorResponse, a NoticeResponse, a ParameterStatus or a
\* CommandComplete.
PreMessages ==
    { <<TagE, 0, 0, 0, 5, 0>>, <<TagN, 0, 0, 0, 5, 0>>, <<TagS, 0, 0, 0, 6, 0, 0>>,
      <<TagC, 0, 0, 0, 5, 0>> }

\* The answers of the server to one command: up to MaxPre messages, then
\* ReadyForQuery.
Responses ==
    UNION { [1..n -> PreMessages] : n \in 0..MaxPre }

RECURSIVE Concat(_)
Concat(ms) == IF ms = <<>> THEN <<>> ELSE Head(ms) \o Concat(Tail(ms))

\* BigEndian::read_u32
read_u32(b) == 16777216 * b[1] + 65536 * b[2] + 256 * b[3] + b[4]

\* ReadyForQuery::decode: an error when the payload is not one byte; the
\* status for I, T, E; unreachable!() for any other byte.
ReadyForQuery_decode(payload) ==
    IF Len(payload) # 1 THEN "err"
    ELSE IF payload[1] \in {StatusI, StatusT, StatusE} THEN "some"
    ELSE "panic"

NoMessage(res, buf) == [res |-> res, tag |-> 0, kind |-> "none", rest |-> buf]

\* Message::decode that splits one byte too few off the buffer.
Message_decode_ShortSplit(src) ==
    IF Len(src) < 5 THEN NoMessage("none", src)
    ELSE IF src[1] = 0 THEN NoMessage("err", src)
    ELSE LET len == read_u32(SubSeq(src, 2, 5)) IN
         IF Len(src) < len THEN NoMessage("none", src)
         ELSE IF Len(src) < len + 1 \/ len + 1 < 5 THEN NoMessage("panic", src)
         ELSE LET token   == src[1]
                  payload == SubSeq(src, 6, len + 1)
                  rest    == SubSeq(src, len + 1, Len(src))
                  some(k) == [res |-> "some", tag |-> token, kind |-> k, rest |-> rest]
              IN  CASE token \in {TagN, TagE} -> some("Response")
                    [] token = TagS -> some("ParameterStatus")
                    [] token = TagZ ->
                          IF ReadyForQuery_decode(payload) = "some" THEN some("ReadyForQuery")
                          ELSE NoMessage(ReadyForQuery_decode(payload), rest)
                    [] token = TagR -> some("Authentication")
                    [] token = TagK -> some("BackendKeyData")
                    [] OTHER -> NoMessage("panic", rest)

\* Message::decode: None while the message is incomplete, else the message
\* split off the buffer.  split_to(len + 1) panics when the buffer holds
\* exactly len bytes, slice_from(5) when the message is shorter than 5 bytes,
\* and an unknown tag is unimplemented!().
Message_decode(src) ==
    IF Len(src) < 5 THEN NoMessage("none", src)
    ELSE IF src[1] = 0 THEN NoMessage("err", src)
    ELSE LET len == read_u32(SubSeq(src, 2, 5)) IN
         IF Len(src) < len THEN NoMessage("none", src)
         ELSE IF Len(src) < len + 1 \/ len + 1 < 5 THEN NoMessage("panic", src)
         ELSE LET token   == src[1]
                  payload == SubSeq(src, 6, len + 1)
                  rest    == SubSeq(src, len + 2, Len(src))
                  some(k) == [res |-> "some", tag |-> token, kind |-> k, rest |-> rest]
              IN  CASE token \in {TagN, TagE} -> some("Response")
                    [] token = TagS -> some("ParameterStatus")
                    [] token = TagZ ->
                          IF ReadyForQuery_decode(payload) = "some" THEN some("ReadyForQuery")
                          ELSE NoMessage(ReadyForQuery_decode(payload), rest)
                    [] token = TagR -> some("Authentication")
                    [] token = TagK -> some("BackendKeyData")
                    [] OTHER -> NoMessage("panic", rest)

\* The inner loop of receive: decodes messages off the buffer, passes over
\* ParameterStatus and Response, and stops at the first other message or when
\* no complete message is left.
RECURSIVE decode_loop(_, _)
decode_loop(buf, seen) ==
    LET d == Message_decode(buf) IN
    IF d.res = "some" /\ d.kind \in {"ParameterStatus", "Response"}
    THEN decode_loop(d.rest, Append(seen, d.tag))
    ELSE [res |-> d.res, tag |-> d.tag, kind |-> d.kind, rbuf |-> d.rest,
          seen |-> IF d.res = "some" THEN Append(seen, d.tag) ELSE seen]

\* An operation on the connection: it writes its command, to which the
\* server answers, and calls receive until ReadyForQuery.
pg_command ==
    /\ pg_pc = "idle"
    /\ pg_nops < MaxPgOps
    /\ pg_nops' = pg_nops + 1
    /\ pg_pc' = "receive"
    /\ pg_result' = "none"
    /\ pg_decoded' = <<>>
    /\ pg_delivered' = <<>>
    /\ IF peer_closed THEN UNCHANGED <<wire, pg_sent>>
       ELSE \E r \in Responses :
               LET ms == r \o <<ReadyForQueryBytes>> IN
               /\ wire' = wire \o Concat(ms)
               /\ pg_sent' = pg_sent \o [i \in 1..Len(ms) |->
                                            [tag |-> ms[i][1], size |-> Len(ms[i])]]
    /\ UNCHANGED <<stream_readable, stream_eof, pg_rbuf, peer_closed>>
    /\ UNCHANGED <<packetVars, recvVars, auxVars, next_seq_no>>

\* What the operation does with the value receive returned.
pg_after_receive(res, kind) ==
    CASE res = "some" /\ kind = "ReadyForQuery" -> pg_pc' = "idle" /\ pg_result' = "ok"
      [] res = "some" -> pg_pc' = "receive" /\ pg_result' = "none"
      [] res = "eof" -> pg_pc' = "closed" /\ pg_result' = "err_eof"
      [] res = "err" -> pg_pc' = "closed" /\ pg_result' = "err_io"
      [] OTHER -> pg_pc' = "panic" /\ pg_result' = "none"

\* receive, from the top of its loop to the socket read: None after
\* end-of-file; otherwise, when the buffer may hold data, the decode loop.
receive_decode ==
    /\ pg_pc = "receive"
    /\ IF stream_eof
       THEN /\ pg_after_receive("eof", "none")
            /\ UNCHANGED <<pg_rbuf, pg_decoded, pg_delivered>>
       ELSE IF stream_readable
       THEN LET d == decode_loop(pg_rbuf, <<>>) IN
            /\ pg_rbuf' = d.rbuf
            /\ pg_decoded' = pg_decoded \o d.seen
            /\ IF d.res = "none"
               THEN pg_pc' = "read" /\ UNCHANGED <<pg_result, pg_delivered>>
               ELSE /\ pg_after_receive(d.res, d.kind)
                    /\ pg_delivered' = IF d.res = "some" THEN Append(pg_delivered, d.tag)
                                       ELSE pg_delivered
       ELSE pg_pc' = "read" /\ UNCHANGED <<pg_rbuf, pg_decoded, pg_delivered, pg_result>>
    /\ UNCHANGED <<stream_readable, stream_eof, wire, peer_closed, pg_nops, pg_sent>>
    /\ UNCHANGED <<packetVars, recvVars, auxVars, next_seq_no>>

\* receive, the socket read: n bytes arrive (0 when the peer has closed and
\* nothing is left), and the loop starts over.
receive_read ==
    /\ pg_pc = "read"
    /\ \E n \in 0..Len(wire) :
         /\ (n = 0) <=> (wire = <<>> /\ peer_closed)
         /\ (wire = <<>>) => peer_closed
         /\ pg_rbuf' = pg_rbuf \o SubSeq(wire, 1, n)
         /\ wire' = SubSeq(wire, n + 1, Len(wire))
         /\ stream_eof' = (n = 0)
    /\ stream_readable' = TRUE
    /\ pg_pc' = "receive"
    /\ UNCHANGED <<peer_closed, pg_nops, pg_result, pg_sent, pg_decoded, pg_delivered>>
    /\ UNCHANGED <<packetVars, recvVars, auxVars, next_seq_no>>

\* The server closes the connection.
peer_close ==
    /\ ~peer_closed
    /\ pg_pc \in {"idle", "receive", "read"}
    /\ peer_closed' = TRUE
    /\ UNCHANGED <<stream_readable, stream_eof, pg_rbuf, wire, pg_pc, pg_nops, pg_result,
                   pg_sent, pg_decoded, pg_delivered>>
    /\ UNCHANGED <<packetVars, recvVars, auxVars, next_seq_no>>

InitPg ==
    /\ PacketIdle
    /\ RecvIdle
    /\ next_seq_no = 0
    /\ PgIdle
    /\ AuxIdle

NextPg ==
    \/ pg_command
    \/ receive_decode
    \/ receive_read
    \/ peer_close

SpecPg == InitPg /\ [][NextPg]_vars

----
\* Claims about the Postgres connection, under SpecPg.

RECURSIVE TotalSize(_)
TotalSize(ms) == IF ms = <<>> THEN 0 ELSE Head(ms).size + TotalSize(Tail(ms))

\* Bytes Message::decode has split off the read buffer so far.
Consumed == TotalSize(pg_sent) - Len(wire) - Len(pg_rbuf)

\* ReadyForQuery messages among the messages wholly within the first n bytes
\* the server wrote.
RECURSIVE ReadyWithin(_, _)
ReadyWithin(ms, n) ==
    IF ms = <<>> \/ Head(ms).size > n THEN 0
    ELSE (IF Head(ms).tag = TagZ THEN 1 ELSE 0) + ReadyWithin(Tail(ms), n - Head(ms).size)

Occurrences(tag, tags) == Len(SelectSeq(tags, LAMBDA t : t = tag))

\* C5: every ErrorResponse that receive decodes is delivered to the caller of
\* receive, none is dropped inside the receive loop.
C5_ErrorResponseDelivered ==
    Occurrences(TagE, pg_decoded) = Occurrences(TagE, pg_delivered)

\* C6: an operation has returned, and the connection is idle again, only
\* after receive delivered ReadyForQuery as its last message, exactly one
\* per operation: the ReadyForQuery messages consumed from the stream are as
\* many as the operations run.
C6_ReadyForQueryPerOperation ==
    (pg_pc = "idle" /\ pg_nops > 0) =>
        /\ pg_result = "ok"
        /\ pg_delivered # <<>>
        /\ pg_delivered[Len(pg_delivered)] = TagZ
        /\ Occurrences(TagZ, pg_delivered) = 1
        /\ ReadyWithin(pg_sent, Consumed) = pg_nops

C6_Witness ==
    /\ pg_pc = "idle"
    /\ pg_nops = MaxPgOps
    /\ pg_result = "ok"
    /\ Len(pg_decoded) > 1
    /\ ReadyWithin(pg_sent, Consumed) = MaxPgOps

\* The tags of the messages wholly within the first n bytes the server
\* wrote.
RECURSIVE TagsWithin(_, _)
TagsWithin(ms, n) ==
    IF ms = <<>> \/ Head(ms).size > n THEN <<>>
    ELSE <<Head(ms).tag>> \o TagsWithin(Tail(ms), n - Head(ms).size)

\* tags without its first k answers (each ends with ReadyForQuery).
RECURSIVE AfterReady(_, _)
AfterReady(tags, k) ==
    IF k = 0 \/ tags = <<>> THEN tags
    ELSE AfterReady(Tail(tags), IF Head(tags) = TagZ THEN k - 1 ELSE k)

\* The messages of the running (or last) operation's answer that have
\* arrived whole, in the read buffer or already decoded.
ArrivedTags == AfterReady(TagsWithin(pg_sent, TotalSize(pg_sent) - Len(wire)), pg_nops - 1)

\* C37: receive does not abort; what the receive calls of an operation have
\* returned are the messages decoded for it other than ParameterStatus,
\* ErrorResponse and NoticeResponse, in the order of arrival, and when the
\* operation is back at idle they are all such messages that arrived; after
\* a socket read of 0 bytes receive does not read the socket again.
C37_ReceiveReturnsInOrder ==
    /\ pg_pc # "panic"
    /\ pg_delivered = SelectSeq(pg_decoded, LAMBDA t : t \notin {TagS, TagE, TagN})
    /\ \E n \in 0..Len(ArrivedTags) : pg_decoded = SubSeq(ArrivedTags, 1, n)
    /\ (pg_pc = "idle" /\ pg_nops > 0) => pg_decoded = ArrivedTags
    /\ stream_eof => pg_pc # "read"

\* The arm of receive's match for Message::ParameterStatus: its body is a
\* comment, the message is dropped (PgConnection has no field that would
\* hold session parameters or the transaction status).
ParameterStatus_arm(parameters, body) == parameters

\* The session parameters the connection holds after the messages decoded.
RECURSIVE session_parameters(_)
session_parameters(decoded) ==
    IF decoded = <<>> THEN <<>>
    ELSE LET before == session_parameters(SubSeq(decoded, 1, Len(decoded) - 1))
             last   == decoded[Len(decoded)]
         IN  IF last = TagS THEN ParameterStatus_arm(before, last) ELSE before

\* C26: every ParameterStatus message receive decodes is recorded in the
\* connection's session parameters.
C26_ParameterStatusRecorded ==
    Occurrences(TagS, pg_decoded) > 0 => session_parameters(pg_decoded) # <<>>

----
\* SpecEstablish: the MySQL handshake of mariadb::connection::establish, and
\* the commands sent on the connection after it.

MaxEstOps == 2     \* commands sent after the handshake

\* The capabilities a server may offer.
Caps == {"CLIENT_MYSQL", "CLIENT_DEPRECATE_EOF", "PLUGIN_AUTH"}

\* The first byte of the replies a server may give to the HandshakeResponse:
\* OK, ERR, and two that are neither.
ReplyTags == {OkHeader, ErrHeader, EofHeader, 1}

\* The capabilities of the server taken as they are.
effective_capabilities_Offered(ctx, initial) == initial

\* establish line 21: ctx.capabilities.bitand(initial.capabilities)
effective_capabilities(ctx, initial) == ctx \cap initial

\* What establish does with the reply: peek_tag 0xFF is the server's error,
\* 0x00 an OK packet, anything else an error; a packet that does not decode
\* is an error too.
reply_outcome_OkOrEof(tag, decodes) ==
    CASE tag = ErrHeader -> IF decodes THEN "err_db" ELSE "err"
      [] tag \in {OkHeader, EofHeader} -> IF decodes THEN "ok" ELSE "err"
      [] OTHER -> "err"

reply_outcome(tag, decodes) ==
    CASE tag = ErrHeader -> IF decodes THEN "err_db" ELSE "err"
      [] tag = OkHeader -> IF decodes THEN "ok" ELSE "err"
      [] OTHER -> "err"

EstFail ==
    /\ est_pc' = "failed"
    /\ est_result' = "err"

\* establish, up to the sending of the HandshakeResponse: the initial
\* handshake packet is read and decoded, the capabilities of the context
\* become their intersection with the server's, and the response carries
\* them.  Reading, decoding and sending may each fail.
establish_initial ==
    /\ est_pc = "initial"
    /\ \/ /\ EstFail
          /\ UNCHANGED <<ctx_capabilities, est_offered, est_sent>>
       \/ \E initial \in SUBSET Caps :
            /\ est_offered' = initial
            /\ ctx_capabilities' = effective_capabilities(ctx_capabilities, initial)
            /\ \/ /\ est_sent' = <<[cmd |-> "HandshakeResponse",
                                    capabilities |-> ctx_capabilities']>>
                  /\ est_pc' = "response"
                  /\ UNCHANGED est_result
               \/ /\ EstFail
                  /\ UNCHANGED est_sent
    /\ UNCHANGED est_reply
    /\ UNCHANGED <<packetVars, recvVars, pgVars, fnVars, poolVars, next_seq_no>>

\* establish, from the reply to the HandshakeResponse on.
establish_reply ==
    /\ est_pc = "response"
    /\ \/ /\ EstFail
          /\ UNCHANGED est_reply
       \/ \E tag \in ReplyTags, decodes \in BOOLEAN :
            /\ est_reply' = tag
            /\ est_result' = reply_outcome(tag, decodes)
            /\ est_pc' = IF est_result' = "ok" THEN "ready" ELSE "failed"
    /\ UNCHANGED <<ctx_capabilities, est_offered, est_sent>>
    /\ UNCHANGED <<packetVars, recvVars, pgVars, fnVars, poolVars, next_seq_no>>

\* The operations of the established connection (quit, query, select_db,
\* ping): each sends its command; none touches the capabilities.
est_command ==
    /\ est_pc = "ready"
    /\ Len(est_sent) <= MaxEstOps
    /\ \E cmd \in {"ComQuit", "ComQuery", "ComInitDb", "ComPing"} :
         /\ est_sent' = Append(est_sent, [cmd |-> cmd, capabilities |-> {}])
         /\ est_pc' = IF cmd = "ComQuit" THEN "closed" ELSE "ready"
    /\ UNCHANGED <<ctx_capabilities, est_offered, est_reply, est_result>>
    /\ UNCHANGED <<packetVars, recvVars, pgVars, fnVars, poolVars, next_seq_no>>

InitEstablish ==
    /\ PacketIdle
    /\ RecvIdle
    /\ PgIdle
    /\ next_seq_no = 0
    /\ AuxIdle

NextEstablish ==
    \/ establish_initial
    \/ establish_reply
    \/ est_command

SpecEstablish == InitEstablish /\ [][NextEstablish]_vars

\* C13: once the handshake has selected the capabilities, the capability set
\* of the connection is the intersection of the client-requested and the
\* server-offered ones, the HandshakeResponse carried that same set, and it
\* stays so under every later operation.
C13_EffectiveCapabilities ==
    est_pc \in {"response", "ready", "closed"} =>
        /\ ctx_capabilities = ClientRequested \cap est_offered
        /\ est_sent[1].cmd = "HandshakeResponse"
        /\ est_sent[1].capabilities = ctx_capabilities

C13_Witness ==
    /\ est_pc = "ready"
    /\ Len(est_sent) = MaxEstOps + 1
    /\ est_offered = Caps
    /\ ctx_capabilities = ClientRequested

\* C14: establish returns a usable connection only after an OK reply to the
\* HandshakeResponse; an ERR reply that decodes makes it fail with the
\* server's error, any other reply with an error; and every command on the
\* connection is sent after the HandshakeResponse was answered with OK.
C14_ReadyOnlyAfterOk ==
    /\ est_pc \in {"ready", "closed"} => (est_reply = OkHeader /\ est_result = "ok")
    /\ est_result = "ok" => est_reply = OkHeader
    /\ est_result = "err_db" => est_reply = ErrHeader
    /\ (est_reply \notin {-1, OkHeader}) => (est_pc = "failed" /\ est_result # "ok")
    /\ Len(est_sent) > 1 => est_reply = OkHeader
    /\ \A i \in DOMAIN est_sent : (est_sent[i].cmd = "HandshakeResponse") <=> (i = 1)

C14_Witness ==
    /\ est_pc = "failed"
    /\ est_reply = ErrHeader
    /\ est_result = "err_db"
    /\ Len(est_sent) = 1

----
\* SpecFn: the pure functions, each called once on an argument drawn from a
\* bounded set.

\* Authentication::decode ------------------------------------------------

\* Payloads of an Authentication message: empty, or four bytes with an
\* optional 4-byte tail.  The well-formed ones are a big-endian u32 (first
\* three bytes 0) with the salt after it.
AuthPayloads ==
    {<<>>} \cup { <<a, 0, 0, d>> \o tail : a \in {0, 2, 3, 5, 8}, d \in 0..12,
                                           tail \in {<<>>, <<1, 2, 3, 4>>} }

AuthCalls == { [fn |-> "Authentication::decode", arg |-> x] : x \in AuthPayloads }

AuthSimple(v) == [res |-> "some", variant |-> v, salt |-> <<>>]

AuthPanic == [res |-> "panic", variant |-> "none", salt |-> <<>>]

\* Authentication::decode: matches on src[0], the first byte of the payload;
\* 5 copies src[1..5] into the salt; any other token is unimplemented!().
Authentication_decode(src) ==
    IF Len(src) = 0 THEN AuthPanic
    ELSE CASE src[1] = 0 -> AuthSimple("Ok")
           [] src[1] = 2 -> AuthSimple("KerberosV5")
           [] src[1] = 3 -> AuthSimple("CleartextPassword")
           [] src[1] = 5 ->
                 IF Len(src) < 5 THEN AuthPanic
                 ELSE [res |-> "some", variant |-> "Md5Password", salt |-> SubSeq(src, 2, 5)]
           [] src[1] = 6 -> AuthSimple("ScmCredential")
           [] src[1] = 7 -> AuthSimple("Gss")
           [] src[1] = 9 -> AuthSimple("Sspi")
           [] OTHER -> AuthPanic

authentication_decode ==
    /\ call.fn = "Authentication::decode"
    /\ ret.res = "pending"
    /\ ret' = Authentication_decode(call.arg)
    /\ UNCHANGED call
    /\ UNCHANGED <<packetVars, recvVars, pgVars, estVars, poolVars, next_seq_no>>

\* The variant the protocol assigns to the u32 n.
AuthVariantOf(n) ==
    CASE n = 0 -> "Ok"
      [] n = 2 -> "KerberosV5"
      [] n = 3 -> "CleartextPassword"
      [] n = 5 -> "Md5Password"
      [] n = 6 -> "ScmCredential"
      [] n = 7 -> "Gss"
      [] n = 8 -> "GssContinue"
      [] n = 9 -> "Sspi"
      [] n = 10 -> "Sasl"
      [] n = 11 -> "SaslContinue"
      [] n = 12 -> "SaslFinal"
      [] OTHER -> "none"

\* C18: for a payload that starts with the big-endian u32 n of a variant,
\* Authentication::decode returns that variant, and for Md5Password (5) the
\* salt is the 4 bytes that follow the u32.
C18_AuthenticationVariant ==
    (/\ call.fn = "Authentication::decode"
     /\ ret.res # "pending"
     /\ Len(call.arg) >= 4
     /\ AuthVariantOf(read_u32(call.arg)) # "none"
     /\ (read_u32(call.arg) = 5 => Len(call.arg) >= 8))
    => /\ ret.res = "some"
       /\ ret.variant = AuthVariantOf(read_u32(call.arg))
       /\ ret.variant = "Md5Password" => ret.salt = SubSeq(call.arg, 5, 8)

\* Encoder::encode_int_lenenc ----------------------------------------------

U24_MAX == 16777215
U16_MAX == 65535
U8_MAX == 255

\* A usize (64 bits) is held as its 8 little-endian bytes, TLC's integers
\* being 32 bits wide.  The values cover both sides of every threshold of the
\* encoding, with 0 and 2^64 - 1.
LenencValues ==
    { <<b1, b2, b3, b4, h, h, h, h>> :
        b1 \in {0, 1, 250, 251, 252, 253, 254, 255}, b2 \in {0, 1, 255}, b3 \in {0, 1, 255},
        b4 \in {0, 255}, h \in {0, 255} }

LenencCalls ==
    { [fn |-> "encode_int_lenenc", arg |-> [some |-> TRUE, value |-> v]] : v \in LenencValues }
    \cup { [fn |-> "encode_int_lenenc", arg |-> [some |-> FALSE, value |-> <<>>]] }

\* The low 24 bits of a value, and whether any higher bit is set.
Low24(v) == v[1] + 256 * v[2] + 65536 * v[3]

Above24(v) == \E i \in 4..8 : v[i] # 0

\* value > n and value <= n, for n below 2^24.
Gt(v, n) == Above24(v) \/ Low24(v) > n

Le(v, n) == ~Gt(v, n)

\* encode_int_u64, encode_int_u24, encode_int_u16: to_le_bytes of the value
\* cast to u64, to u32 (of which 3 bytes are kept), to u16.
encode_int_u64(v) == SubSeq(v, 1, 8)

encode_int_u24(v) == SubSeq(SubSeq(v, 1, 4), 1, 3)

encode_int_u16(v) == SubSeq(v, 1, 2)

\* encode_int_lenenc that writes every value up to 255 as a single byte.
encode_int_lenenc_Verbatim(value) ==
    IF value.some
    THEN LET v == value.value IN
         IF Gt(v, U24_MAX) THEN [res |-> "some", bytes |-> <<254>> \o encode_int_u64(v)]
         ELSE IF Gt(v, U16_MAX) /\ Le(v, U24_MAX)
         THEN [res |-> "some", bytes |-> <<253>> \o encode_int_u24(v)]
         ELSE IF Gt(v, U8_MAX) /\ Le(v, U16_MAX)
         THEN [res |-> "some", bytes |-> <<252>> \o encode_int_u16(v)]
         ELSE [res |-> "some", bytes |-> <<v[1]>>]
    ELSE [res |-> "some", bytes |-> <<251>>]

\* encode_int_lenenc that writes all 4 bytes of the u32 after 0xFD.
encode_int_lenenc_WideU24(value) ==
    IF value.some
    THEN LET v == value.value IN
         IF Gt(v, U24_MAX) THEN [res |-> "some", bytes |-> <<254>> \o encode_int_u64(v)]
         ELSE IF Gt(v, U16_MAX) /\ Le(v, U24_MAX)
         THEN [res |-> "some", bytes |-> <<253>> \o SubSeq(v, 1, 4)]
         ELSE IF Gt(v, U8_MAX) /\ Le(v, U16_MAX)
         THEN [res |-> "some", bytes |-> <<252>> \o encode_int_u16(v)]
         ELSE IF Le(v, U8_MAX)
         THEN (IF v[1] \in {251, 252, 253, 254, 255}
               THEN [res |-> "some", bytes |-> <<252, v[1], 0>>]
               ELSE [res |-> "some", bytes |-> <<v[1]>>])
         ELSE [res |-> "panic", bytes |-> <<>>]
    ELSE [res |-> "some", bytes |-> <<251>>]

\* encode_int_lenenc: the bytes appended to the buffer.  (value <= u64::MAX
\* as usize holds for every usize.)
encode_int_lenenc_bytes(value) ==
    IF value.some
    THEN LET v == value.value IN
         IF Gt(v, U24_MAX) THEN [res |-> "some", bytes |-> <<254>> \o encode_int_u64(v)]
         ELSE IF Gt(v, U16_MAX) /\ Le(v, U24_MAX)
         THEN [res |-> "some", bytes |-> <<253>> \o encode_int_u24(v)]
         ELSE IF Gt(v, U8_MAX) /\ Le(v, U16_MAX)
         THEN [res |-> "some", bytes |-> <<252>> \o encode_int_u16(v)]
         ELSE IF Le(v, U8_MAX)
         THEN (IF v[1] \in {251, 252, 253, 254, 255}
               THEN [res |-> "some", bytes |-> <<252, v[1], 0>>]
               ELSE [res |-> "some", bytes |-> <<v[1]>>])
         ELSE [res |-> "panic", bytes |-> <<>>]
    ELSE [res |-> "some", bytes |-> <<251>>]

\* One call of encode_int_lenenc.
encode_int_lenenc ==
    /\ call.fn = "encode_int_lenenc"
    /\ ret.res = "pending"
    /\ ret' = encode_int_lenenc_bytes(call.arg)
    /\ UNCHANGED call
    /\ UNCHANGED <<packetVars, recvVars, pgVars, estVars, poolVars, next_seq_no>>

\* The length-encoded-integer reader: a first byte up to 250 is the value,
\* 251 is NULL, 252, 253 and 254 prefix 2, 3 and 8 little-endian bytes.
Widen(b) == b \o [i \in 1..(8 - Len(b)) |-> 0]

decode_int_lenenc(buf) ==
    IF buf = <<>> THEN [res |-> "err", some |-> FALSE, value |-> <<>>]
    ELSE LET take(n) ==
               IF Len(buf) < n + 1 THEN [res |-> "err", some |-> FALSE, value |-> <<>>]
               ELSE [res |-> "ok", some |-> TRUE, value |-> Widen(SubSeq(buf, 2, n + 1))]
         IN  CASE buf[1] < 251 -> [res |-> "ok", some |-> TRUE, value |-> Widen(<<buf[1]>>)]
               [] buf[1] = 251 -> [res |-> "ok", some |-> FALSE, value |-> <<>>]
               [] buf[1] = 252 -> take(2)
               [] buf[1] = 253 -> take(3)
               [] buf[1] = 254 -> take(8)
               [] OTHER -> [res |-> "err", some |-> FALSE, value |-> <<>>]

\* C19: decoding what encode_int_lenenc wrote yields the value that was
\* encoded, for every value from 0 to 2^64 - 1, and None for None.
C19_LenencRoundTrip ==
    (call.fn = "encode_int_lenenc" /\ ret.res # "pending") =>
        /\ ret.res = "some"
        /\ decode_int_lenenc(ret.bytes) =
              [res |-> "ok", some |-> call.arg.some, value |-> call.arg.value]

C19_Witness ==
    /\ call.fn = "encode_int_lenenc"
    /\ call.arg.some
    /\ call.arg.value = <<255, 255, 255, 255, 255, 255, 255, 255>>
    /\ ret.res = "some"
    /\ Len(ret.bytes) = 9

\* C20: encode_int_lenenc writes the single byte v for v <= 250; 0xFC and v
\* in 2 little-endian bytes for 251 <= v <= 0xFFFF; 0xFD and 3 bytes for
\* 0x10000 <= v <= 0xFFFFFF; 0xFE and 8 bytes above that; 0xFB for None.
C20_LenencShape ==
    (call.fn = "encode_int_lenenc" /\ ret.res # "pending") =>
        /\ ret.res = "some"
        /\ ret.bytes =
              IF ~call.arg.some THEN <<251>>
              ELSE LET v == call.arg.value IN
                   IF Above24(v) THEN <<254>> \o v
                   ELSE IF Low24(v) <= 250 THEN <<Low24(v)>>
                   ELSE IF Low24(v) <= 65535 THEN <<252, v[1], v[2]>>
                   ELSE <<253, v[1], v[2], v[3]>>

C20_Witness ==
    /\ call.fn = "encode_int_lenenc"
    /\ call.arg.some
    /\ call.arg.value = <<251, 0, 0, 0, 0, 0, 0, 0>>
    /\ ret.res = "some"
    /\ ret.bytes = <<252, 251, 0>>

\* ErrPacket::deserialize (mason-mariadb) ---------------------------------

\* '#', the marker of the sql-state.
SqlStateMarker == 35

\* Bodies of an ERR packet: header, error code (little-endian u16), and
\* nothing, a message, or '#' with a 5-byte sql-state and a message (that
\* may be empty); one progress report (code 0xFFFF); one body with an unknown
\* error code and one that does not start with 0xFF.
ErrBodies ==
    { <<ErrHeader, 234, 3>> \o rest :
         rest \in { <<>>, <<78>>, <<78, 79>>,
                    <<SqlStateMarker, 72, 89, 48, 48, 48>>,
                    <<SqlStateMarker, 72, 89, 48, 48, 48, 78, 79>> } }
    \cup { <<ErrHeader, 255, 255, 1, 2, 3, 0, 0, 2, 78, 79>>,
           <<ErrHeader, 0, 0, 78, 79>>,
           <<OkHeader, 234, 3, 78, 79>> }

\* The packet of a body: int<3> length, sequence number, body.
PacketOf(body) == <<Len(body), 0, 0, 1>> \o body

ErrCalls == { [fn |-> "ErrPacket::deserialize", arg |-> PacketOf(b)] : b \in ErrBodies }

\* ErrorCode::try_from fails for a code the enum does not have.
KnownErrorCodes == {1002, 65535}

\* Decoder::decode_int_2 / decode_int_3 at position i (from 1).
decode_int_2(buf, i) == buf[i] + 256 * buf[i + 1]

decode_int_3(buf, i) == buf[i] + 256 * buf[i + 1] + 65536 * buf[i + 2]

ErrNone ==
    [res |-> "panic", error_code |-> -1, sql_state_marker |-> "None", sql_state |-> "None",
     error_message |-> "None", progress |-> "None"]

\* ErrPacket::deserialize: length, sequence number, header (anything but
\* 0xFF panics), error code; for 0xFFFF the progress report; otherwise the
\* byte at the decoder's position is compared with '#' (indexing the buffer
\* past its end panics) and sql-state and message, or the message alone,
\* follow.
ErrPacket_deserialize(buf) ==
    LET length     == decode_int_3(buf, 1)
        header     == buf[5]
        error_code == decode_int_2(buf, 6)
        index      == 8
    IN  IF header # ErrHeader THEN ErrNone
        ELSE IF error_code \notin KnownErrorCodes THEN [ErrNone EXCEPT !.res = "err"]
        ELSE IF error_code = 65535
        THEN [ErrNone EXCEPT !.res = "some", !.error_code = error_code,
                             !.progress = decode_int_3(buf, index + 2)]
        ELSE IF index > Len(buf) THEN ErrNone
        ELSE IF buf[index] = SqlStateMarker
        THEN IF index + 5 > Len(buf) THEN ErrNone
             ELSE [ErrNone EXCEPT !.res = "some", !.error_code = error_code,
                                  !.sql_state_marker = <<buf[index]>>,
                                  !.sql_state = SubSeq(buf, index + 1, index + 5),
                                  !.error_message = SubSeq(buf, index + 6, Len(buf))]
        ELSE [ErrNone EXCEPT !.res = "some", !.error_code = error_code,
                             !.error_message = SubSeq(buf, index, Len(buf))]

errpacket_deserialize ==
    /\ call.fn = "ErrPacket::deserialize"
    /\ ret.res = "pending"
    /\ ret' = ErrPacket_deserialize(call.arg)
    /\ UNCHANGED call
    /\ UNCHANGED <<packetVars, recvVars, pgVars, estVars, poolVars, next_seq_no>>

\* The body of the packet decoded.
ErrBody == SubSeq(call.arg, 5, Len(call.arg))

\* C28: for a body that starts with 0xFF and whose code is not 0xFFFF,
\* decoding returns a value or an error; the value has the little-endian
\* u16 after the header as its code; with '#' after the code the next 5
\* bytes are the sql-state and the rest the message; otherwise (another
\* byte, or none) the sql-state is absent and the rest is the message.
C28_ErrPacketDecode ==
    (/\ call.fn = "ErrPacket::deserialize"
     /\ ret.res # "pending"
     /\ ErrBody[1] = ErrHeader
     /\ ErrBody[2] + 256 * ErrBody[3] # 65535) =>
        /\ ret.res \in {"some", "err"}
        /\ ret.res = "some" =>
              /\ ret.error_code = ErrBody[2] + 256 * ErrBody[3]
              /\ IF Len(ErrBody) >= 9 /\ ErrBody[4] = SqlStateMarker
                 THEN /\ ret.sql_state = SubSeq(ErrBody, 5, 9)
                      /\ ret.error_message = SubSeq(ErrBody, 10, Len(ErrBody))
                 ELSE /\ ret.sql_state = "None"
                      /\ ret.error_message = SubSeq(ErrBody, 4, Len(ErrBody))

\* ResultSet::deserialize (mason-mariadb) ---------------------------------

\* FieldType::try_from(u8): the values of the enum.
FieldType_try_from(b) == b \in (0..19) \cup (245..255)

\* A result set: the column count of its column-count packet, the
\* field_type byte of each column definition that follows, and the number
\* of rows after them.
ResultSets ==
    { [columns |-> Len(d), field_types |-> d, rows |-> r] :
        d \in UNION { [1..n -> {3, 253, 100}] : n \in 0..2 }, r \in 0..1 }

ResultSetCalls == { [fn |-> "ResultSet::deserialize", arg |-> x] : x \in ResultSets }

\* ColumnDefPacket::deserialize: an error when the field_type byte is not a
\* FieldType.
ColumnDefPacket_deserialize(b) ==
    IF FieldType_try_from(b) THEN [res |-> "some", field_type |-> b]
    ELSE [res |-> "err", field_type |-> b]

\* ResultSet::deserialize: the column definitions that fail to decode are
\* filtered out of the column list; every row is read as column_count
\* values; the result is Ok.
ResultSet_deserialize(rs) ==
    LET decoded == [i \in 1..rs.columns |-> ColumnDefPacket_deserialize(rs.field_types[i])]
        columns == SelectSeq(decoded, LAMBDA d : d.res = "some")
    IN  [res |-> "some",
         column_count |-> rs.columns,
         columns |-> [i \in 1..Len(columns) |-> columns[i].field_type],
         rows |-> [i \in 1..rs.rows |-> rs.columns]]

resultset_deserialize ==
    /\ call.fn = "ResultSet::deserialize"
    /\ ret.res = "pending"
    /\ ret' = ResultSet_deserialize(call.arg)
    /\ UNCHANGED call
    /\ UNCHANGED <<packetVars, recvVars, pgVars, estVars, poolVars, next_seq_no>>

\* C30: a decoded result set has as many column definitions as its
\* column-count packet declared, and decoding fails when one of the column
\* definitions cannot be decoded.
C30_ColumnCountMatches ==
    (call.fn = "ResultSet::deserialize" /\ ret.res # "pending") =>
        /\ ret.res = "some" => Len(ret.columns) = call.arg.columns
        /\ (\E i \in 1..call.arg.columns : ~FieldType_try_from(call.arg.field_types[i]))
              => ret.res # "some"

\* Connection::write, the header ---------------------------------------------

\* The encoded packets written: the length of the body the packet's encode
\* put in the buffer, and the sequence number at the time of the write.
WritePayloads == {0, 1, 255, 256, 65536, U24_MAX - 1, U24_MAX, U24_MAX + 1, U24_MAX + 258}

WriteCalls ==
    { [fn |-> "Connection::write", arg |-> [len |-> n, next_seq_no |-> q]] :
        n \in WritePayloads, q \in {0, 1, 254} }

\* LittleEndian::write_u32(&mut header, len as u32): the four bytes of len.
write_u32(len) ==
    <<len % 256, (len \div 256) % 256, (len \div 65536) % 256, (len \div 16777216) % 256>>

\* Connection::write after packet.encode: len is the length of the buffer
\* past the 4 bytes reserved for the header; the four bytes of len are
\* written to the header and header[3] is then set to the sequence number.
\* One packet is written; the body stays where encode put it.
Connection_write(len, seq) ==
    LET header == [write_u32(len) EXCEPT ![4] = seq] IN
    [res |-> "some",
     packets |-> << [header |-> header, body |-> len] >>,
     next_seq_no |-> seq + 1]

connection_write ==
    /\ call.fn = "Connection::write"
    /\ ret.res = "pending"
    /\ ret' = Connection_write(call.arg.len, call.arg.next_seq_no)
    /\ UNCHANGED call
    /\ UNCHANGED <<packetVars, recvVars, pgVars, estVars, poolVars, next_seq_no>>

\* C31: every packet written has a header whose first three bytes are the
\* little-endian length of the body after it and whose fourth byte is the
\* sequence number; the bodies together are the payload; and a payload
\* longer than 2^24 - 1 bytes is written as several packets.
C31_HeaderHoldsLength ==
    (call.fn = "Connection::write" /\ ret.res # "pending") =>
        /\ ret.res = "some"
        /\ \A i \in DOMAIN ret.packets :
              LET p == ret.packets[i] IN
              /\ p.header[1] + 256 * p.header[2] + 65536 * p.header[3] = p.body
              /\ p.header[4] = (call.arg.next_seq_no + i - 1) % 256
        /\ call.arg.len > U24_MAX => Len(ret.packets) > 1

\* Message::decode on a buffer that holds what has arrived so far ------------

\* What the read buffer can hold: every prefix of two messages of the server,
\* one after the other.
DecodeMessages ==
    { ReadyForQueryBytes, <<TagS, 0, 0, 0, 6, 0, 0>>, <<TagE, 0, 0, 0, 5, 0>>,
      <<TagK, 0, 0, 0, 12, 0, 0, 0, 1, 0, 0, 0, 2>> }

DecodeBuffers ==
    UNION { { SubSeq(a \o b, 1, n) : n \in 0..Len(a \o b) } :
                a \in DecodeMessages, b \in DecodeMessages }

DecodeCalls == { [fn |-> "Message::decode", arg |-> x] : x \in DecodeBuffers }

message_decode ==
    /\ call.fn = "Message::decode"
    /\ ret.res = "pending"
    /\ ret' = Message_decode(call.arg)
    /\ UNCHANGED call
    /\ UNCHANGED <<packetVars, recvVars, pgVars, estVars, poolVars, next_seq_no>>

\* The bytes of the first message of the buffer src: 1 + len, len the
\* big-endian u32 after the tag; more than any buffer while len has not
\* arrived.
FirstMessageSize(src) ==
    IF Len(src) < 5 THEN 5 ELSE 1 + read_u32(SubSeq(src, 2, 5))

\* C32: Message::decode returns None and leaves the buffer as it was when
\* less than the 1 + len bytes of the first message have arrived, and else
\* takes exactly these 1 + len bytes off the buffer; it does not abort.
C32_DecodeWholeMessages ==
    (call.fn = "Message::decode" /\ ret.res # "pending") =>
        IF Len(call.arg) < FirstMessageSize(call.arg)
        THEN ret.res = "none" /\ ret.rest = call.arg
        ELSE /\ ret.res = "some"
             /\ ret.rest = SubSeq(call.arg, FirstMessageSize(call.arg) + 1, Len(call.arg))

\* InitialHandshakePacket::deserialize, the length of the scramble -----------

\* What of the handshake decides the length: whether the capabilities hold
\* PLUGIN_AUTH and SECURE_CONNECTION, and the byte at the place of the
\* plugin data length.
HandshakeCalls ==
    { [fn |-> "InitialHandshakePacket::deserialize",
       arg |-> [plugin_auth |-> a, secure_connection |-> s, byte |-> b]] :
        a \in BOOLEAN, s \in BOOLEAN, b \in 0..255 }

\* A usize as its 8 bytes, low byte first.
usize(n) == <<n % 256, (n \div 256) % 256, 0, 0, 0, 0, 0, 0>>

\* plugin_data_length as usize - 9: below 9 the subtraction overflows; a
\* build with overflow checks panics, one without wraps to 2^64 - 9 + d.
minus_9(d) ==
    IF d >= 9 THEN { [res |-> "some", len |-> usize(d - 9)] }
    ELSE { [res |-> "panic", len |-> usize(0)],
           [res |-> "some", len |-> <<256 + d - 9, 255, 255, 255, 255, 255, 255, 255>>] }

\* std::cmp::max(12, n)
max_12(n) ==
    IF n[1] < 12 /\ \A i \in 2..8 : n[i] = 0 THEN usize(12) ELSE n

\* The part of deserialize that fixes the length passed to decode_string_fix
\* for the scramble: plugin_data_length is 0 unless PLUGIN_AUTH is set, and
\* the scramble is read only with SECURE_CONNECTION.
scramble_len(h) ==
    LET plugin_data_length == IF h.plugin_auth THEN h.byte ELSE 0 IN
    IF ~h.secure_connection THEN { [res |-> "none", len |-> usize(0)] }
    ELSE { [res |-> r.res, len |-> IF r.res = "some" THEN max_12(r.len) ELSE r.len] :
              r \in minus_9(plugin_data_length) }

initial_handshake_deserialize ==
    /\ call.fn = "InitialHandshakePacket::deserialize"
    /\ ret.res = "pending"
    /\ ret' \in scramble_len(call.arg)
    /\ UNCHANGED call
    /\ UNCHANGED <<packetVars, recvVars, pgVars, estVars, poolVars, next_seq_no>>

\* C34: with SECURE_CONNECTION, for every plugin data length d the length of
\* the second part of the seed is max(12, d - 9): 12 for every d up to 21,
\* d - 9 above; the computation does not fail.
C34_ScrambleLength ==
    (call.fn = "InitialHandshakePacket::deserialize" /\ ret.res # "pending"
        /\ call.arg.secure_connection) =>
        LET d == IF call.arg.plugin_auth THEN call.arg.byte ELSE 0 IN
        /\ ret.res = "some"
        /\ ret.len = usize(IF d <= 21 THEN 12 ELSE d - 9)

\* mason-mariadb serialize_int_lenenc ---------------------------------------

\* The buffer before the call: empty, or holding a packet begun earlier.
SerializeBuffers == { <<>>, <<1, 0, 0, 0, 3, 7, 7, 7, 7>> }

SerializeCalls ==
    { [fn |-> "serialize_int_lenenc", arg |-> [some |-> TRUE, value |-> v, buf |-> b]] :
        v \in LenencValues, b \in SerializeBuffers }
    \cup { [fn |-> "serialize_int_lenenc", arg |-> [some |-> FALSE, value |-> <<>>, buf |-> b]] :
             b \in SerializeBuffers }

\* buf.put(byte): the byte is appended.
put(buf, byte) == [res |-> "some", buf |-> Append(buf, byte)]

\* LittleEndian::write_uN(buf, value) with the BytesMut as the slice to write
\* to: the n bytes go to the start of what the buffer holds, and the write
\* panics when the buffer holds less than n bytes.
write_le(buf, bytes) ==
    IF Len(buf) < Len(bytes) THEN [res |-> "panic", buf |-> buf]
    ELSE [res |-> "some", buf |-> bytes \o SubSeq(buf, Len(bytes) + 1, Len(buf))]

serialize_int_8(buf, v) == write_le(buf, SubSeq(v, 1, 8))

serialize_int_3(buf, v) == write_le(buf, SubSeq(v, 1, 3))

serialize_int_2(buf, v) == write_le(buf, SubSeq(v, 1, 2))

serialize_int_1(buf, v) == put(buf, v[1])

\* serialize_int_lenenc: 0xFE, 0xFD, 0xFC, 0xFA and the integer of 8, 3, 2,
\* 1 bytes by the size of the value; 0xFB for None.
serialize_int_lenenc_buf(buf, value) ==
    IF value.some
    THEN LET v == value.value IN
         IF Gt(v, U24_MAX) THEN serialize_int_8(put(buf, 254).buf, v)
         ELSE IF Gt(v, U16_MAX) /\ Le(v, U24_MAX) THEN serialize_int_3(put(buf, 253).buf, v)
         ELSE IF Gt(v, U8_MAX) /\ Le(v, U16_MAX) THEN serialize_int_2(put(buf, 252).buf, v)
         ELSE IF Le(v, U8_MAX) THEN serialize_int_1(put(buf, 250).buf, v)
         ELSE [res |-> "panic", buf |-> buf]
    ELSE put(buf, 251)

serialize_int_lenenc ==
    /\ call.fn = "serialize_int_lenenc"
    /\ ret.res = "pending"
    /\ ret' = serialize_int_lenenc_buf(call.arg.buf, call.arg)
    /\ UNCHANGED call
    /\ UNCHANGED <<packetVars, recvVars, pgVars, estVars, poolVars, next_seq_no>>

\* C36: the bytes serialize_int_lenenc(Some(v)) adds to the buffer decode,
\* as a length-encoded integer, to v, for every v from 0 to 2^64 - 1.
C36_SerializeRoundTrip ==
    (call.fn = "serialize_int_lenenc" /\ ret.res # "pending" /\ call.arg.some) =>
        /\ ret.res = "some"
        /\ decode_int_lenenc(SubSeq(ret.buf, Len(call.arg.buf) + 1, Len(ret.buf))) =
              [res |-> "ok", some |-> TRUE, value |-> call.arg.value]

\* ReadyForQuery::decode ----------------------------------------------------

ReadyPayloads ==
    {<<>>} \cup { <<b>> : b \in {StatusI, StatusT, StatusE, 0, 88, 105} }
           \cup { <<a, b>> : a \in {StatusI, StatusE}, b \in {0, StatusT} }

ReadyCalls == { [fn |-> "ReadyForQuery::decode", arg |-> x] : x \in ReadyPayloads }

\* The arms of the match on src[0].
TransactionStatus(b) ==
    CASE b = StatusI -> "Idle"
      [] b = StatusT -> "Transaction"
      [] b = StatusE -> "Error"
      [] OTHER -> "none"

readyforquery_decode ==
    /\ call.fn = "ReadyForQuery::decode"
    /\ ret.res = "pending"
    /\ ret' = [res |-> ReadyForQuery_decode(call.arg),
               status |-> IF ReadyForQuery_decode(call.arg) = "some"
                          THEN TransactionStatus(call.arg[1]) ELSE "none"]
    /\ UNCHANGED call
    /\ UNCHANGED <<packetVars, recvVars, pgVars, estVars, poolVars, next_seq_no>>

\* C40: ReadyForQuery::decode gives the status Idle, Transaction, Error for
\* the one-byte payloads I, T, E, and an error for every payload that is not
\* one byte long and for every other one-byte payload; it does not abort.
C40_ReadyForQueryDecode ==
    (call.fn = "ReadyForQuery::decode" /\ ret.res # "pending") =>
        IF Len(call.arg) = 1 /\ call.arg[1] \in {StatusI, StatusT, StatusE}
        THEN /\ ret.res = "some"
             /\ ret.status = (CASE call.arg[1] = StatusI -> "Idle"
                                [] call.arg[1] = StatusT -> "Transaction"
                                [] OTHER -> "Error")
        ELSE ret.res = "err"

InitFn ==
    /\ PacketIdle
    /\ RecvIdle
    /\ PgIdle
    /\ EstIdle
    /\ PoolIdle
    /\ next_seq_no = 0
    /\ call \in AuthCalls \cup LenencCalls \cup ErrCalls \cup ResultSetCalls
                \cup WriteCalls \cup DecodeCalls \cup HandshakeCalls
                \cup SerializeCalls \cup ReadyCalls
    /\ ret = [res |-> "pending"]

NextFn ==
    \/ authentication_decode
    \/ encode_int_lenenc
    \/ errpacket_deserialize
    \/ resultset_deserialize
    \/ connection_write
    \/ message_decode
    \/ initial_handshake_deserialize
    \/ serialize_int_lenenc
    \/ readyforquery_decode

SpecFn == InitFn /\ [][NextFn]_vars

----
\* SpecRowLoop: the row loop of ResultSet::deserialize, one pass per step,
\* over the bytes that follow the column definitions in the buffer.

MaxRowBytes == 6  \* bytes in the buffer after the column definitions
MaxRowsKept == 3  \* rows counted in the model; the loop itself has no limit

\* column_packet.columns: None (here -1) for the NULL marker 0xFB, else the
\* count.
ColumnCounts == {-1, 0, 1, 2}

\* The bytes after the column definitions: strings of at most one byte with
\* their one-byte length in front, whole or cut short.
RowBuffers == UNION { [1..n -> {0, 1}] : n \in 0..MaxRowBytes }

RowLoopCalls ==
    { [fn |-> "ResultSet::deserialize", arg |-> [columns |-> c, buf |-> b]] :
        c \in ColumnCounts, b \in RowBuffers }

\* column_packet.columns.unwrap_or(0)
unwrap_or_0(columns) == IF columns < 0 THEN 0 ELSE columns

\* decode_string_lenenc at index of buf, n times: each reads the length and
\* moves the index past the length and the string; -1 when the buffer ends
\* before that.
RECURSIVE decode_strings(_, _, _)
decode_strings(buf, index, n) ==
    IF n = 0 THEN index
    ELSE IF index >= Len(buf) \/ index + 1 + buf[index + 1] > Len(buf) THEN -1
    ELSE decode_strings(buf, index + 1 + buf[index + 1], n - 1)

\* One pass of `while decoder.index < buf.len()`: a row of
\* columns.unwrap_or(0) strings is decoded and pushed.
row_loop_pass ==
    /\ call.fn = "ResultSet::deserialize"
    /\ ret.res = "pending"
    /\ ret.index < Len(call.arg.buf)
    /\ LET index == decode_strings(call.arg.buf, ret.index, unwrap_or_0(call.arg.columns)) IN
       ret' = IF index < 0 THEN [ret EXCEPT !.res = "panic"]
              ELSE [ret EXCEPT !.index = index,
                               !.rows = IF @ < MaxRowsKept THEN @ + 1 ELSE @]
    /\ UNCHANGED call
    /\ UNCHANGED <<packetVars, recvVars, pgVars, estVars, poolVars, next_seq_no>>

\* The loop ends when the index has reached the end of the buffer; the
\* result set is returned.
row_loop_exit ==
    /\ call.fn = "ResultSet::deserialize"
    /\ ret.res = "pending"
    /\ ret.index >= Len(call.arg.buf)
    /\ ret' = [ret EXCEPT !.res = "some"]
    /\ UNCHANGED call
    /\ UNCHANGED <<packetVars, recvVars, pgVars, estVars, poolVars, next_seq_no>>

InitRowLoop ==
    /\ PacketIdle
    /\ RecvIdle
    /\ PgIdle
    /\ EstIdle
    /\ PoolIdle
    /\ next_seq_no = 0
    /\ call \in RowLoopCalls
    /\ ret = [res |-> "pending", index |-> 0, rows |-> 0]

NextRowLoop ==
    \/ row_loop_pass
    \/ row_loop_exit

\* deserialize runs on: a pass or the exit that can be taken is taken.
SpecRowLoop == InitRowLoop /\ [][NextRowLoop]_vars /\ WF_vars(NextRowLoop)

\* C35: ResultSet::deserialize comes to an end for every buffer: every pass
\* of its row loop that does not fail moves the index forward, towards the
\* end of the buffer.
C35_RowLoopProgress ==
    [][(ret.res = "pending" /\ ret'.res = "pending") => ret'.index > ret.index]_vars

----
\* SpecPool: tasks that call the Executor methods of &Pool on one shared
\* pool.  The methods are those of pool/executor.rs; Pool::acquire and the
\* return of a connection when its guard is dropped follow the pool's
\* description (maximum M, idle queue, size counter, waiters in FIFO order).

MaxTasks == 3      \* tasks sharing the pool
MaxPool == 1       \* largest maximum M of the pool
MaxPoolOps == 3    \* Executor methods called on the pool in all
MaxYield == 1      \* rows a fetch stream yields before it ends

Tasks == 1..MaxTasks

\* What an Executor method returns: fetch a BoxStream, the others a
\* BoxFuture.
MethodReturns(o) == IF o = "fetch" THEN "BoxStream" ELSE "BoxFuture"

\* as: what the method the task runs returns, a stream or a future.
NoTask == [pc |-> "idle", as |-> "none", conn |-> 0, yielded |-> 0]

\* Task t's method returns result r (or its future is dropped).
Returns(t, r) == returned' = [task |-> t, result |-> r]

\* A connection as Pool::acquire opens it, handed to the caller at once.
\* acquired, returned, cancelled: history.
NewConn ==
    [state |-> "Idle", poisoned |-> FALSE, acquired |-> 1, returned |-> 0,
     cancelled |-> FALSE]

\* acquire that opens a connection whenever none is idle.
acquire_choice_NoBound(p) ==
    IF p.idle # <<>> THEN "idle" ELSE "open"

\* Pool::acquire: an idle connection if there is one, else a new one while
\* the size is below the maximum, else the caller waits.
acquire_choice(p) ==
    IF p.idle # <<>> THEN "idle"
    ELSE IF p.size < p.max THEN "open"
    ELSE "wait"

\* The waiter served next is the one that has waited longest.
next_waiter_Last(ws) == Len(ws)

next_waiter(ws) == 1

\* A timeout that leaves the caller in the waiter queue.
remove_waiter_Keeps(ws, t) == ws

\* The waiter queue without t, the order of the others kept.
remove_waiter(ws, t) == SelectSeq(ws, LAMBDA w : w # t)

\* The inspection that returns every connection to the idle queue.
inspect_Never(cn) == "idle"

\* The inspection of a returned connection: discarded when it is awaiting a
\* response or poisoned, else idle again.
inspect(cn) ==
    IF cn.state = "AwaitingResponse" \/ cn.poisoned THEN "discard" ELSE "idle"

\* The guard dropped as soon as the fetch stream yields.
live_dropped_AtYield(as, event) ==
    event \in {"return", "cancel"} \/ (as = "BoxStream" /\ event = "yield")

\* Where the guard acquire returned is dropped: execute, fetch_optional and
\* describe hold it as a temporary up to the end of the awaited call; fetch
\* holds it in `live`, a local of the stream, across every yield.  Dropping
\* the future or the stream drops it too.
live_dropped(as, event) == event \in {"return", "cancel"}

\* The return of connection c to the pool p: the connection is inspected;
\* a discarded one leaves the size counter, and the first waiter, if any,
\* gets the connection (or a new one in place of a discarded one).  wake is
\* the waiter served, 0 for none.
Release(p, cs, c) ==
    LET back == [cs EXCEPT ![c].returned = @ + 1]
        w   == p.waiters[next_waiter(p.waiters)]
    IN  IF inspect(cs[c]) = "discard"
        THEN LET cs1 == [back EXCEPT ![c].state = "Discarded"]
                 p1  == [p EXCEPT !.size = @ - 1]
             IN  IF p.waiters # <<>> /\ acquire_choice(p1) = "open"
                 THEN [pool  |-> [p1 EXCEPT !.size = @ + 1, !.waiters = remove_waiter(@, w)],
                       conns |-> Append(cs1, NewConn),
                       wake  |-> w,
                       conn  |-> Len(cs1) + 1]
                 ELSE [pool |-> p1, conns |-> cs1, wake |-> 0, conn |-> 0]
        ELSE IF p.waiters # <<>>
             THEN [pool  |-> [p EXCEPT !.waiters = remove_waiter(@, w)],
                   conns |-> [back EXCEPT ![c].acquired = @ + 1],
                   wake  |-> w,
                   conn  |-> c]
             ELSE [pool |-> [p EXCEPT !.idle = Append(@, c)], conns |-> back,
                   wake |-> 0, conn |-> 0]

\* The guard of task t is dropped: connection c, in the state cs gives it,
\* goes back to the pool, and t goes on as `after`.
DropLive(t, after, cs, c) ==
    LET r == Release(pool, cs, c) IN
    /\ pool' = r.pool
    /\ conns' = r.conns
    /\ tasks' = [x \in Tasks |->
                   IF x = r.wake THEN [tasks[x] EXCEPT !.pc = "holding", !.conn = r.conn]
                   ELSE IF x = t THEN after
                   ELSE tasks[x]]

\* execute, fetch, fetch_optional, describe on &Pool, up to the answer of
\* self.acquire().
pool_method(t, o) ==
    /\ tasks[t].pc = "idle"
    /\ started < MaxPoolOps
    /\ started' = started + 1
    /\ CASE acquire_choice(pool) = "idle" ->
              LET c == Head(pool.idle) IN
              /\ pool' = [pool EXCEPT !.idle = Tail(@)]
              /\ conns' = [conns EXCEPT ![c].acquired = @ + 1]
              /\ tasks' = [tasks EXCEPT ![t] = [NoTask EXCEPT !.pc = "holding",
                                                              !.as = MethodReturns(o),
                                                              !.conn = c]]
         [] acquire_choice(pool) = "open" ->
              /\ pool' = [pool EXCEPT !.size = @ + 1]
              /\ conns' = Append(conns, NewConn)
              /\ tasks' = [tasks EXCEPT ![t] = [NoTask EXCEPT !.pc = "holding",
                                                              !.as = MethodReturns(o),
                                                              !.conn = Len(conns) + 1]]
         [] OTHER ->
              /\ pool' = [pool EXCEPT !.waiters = Append(@, t)]
              /\ conns' = conns
              /\ tasks' = [tasks EXCEPT ![t] = [NoTask EXCEPT !.pc = "waiting",
                                                              !.as = MethodReturns(o)]]
    /\ UNCHANGED returned
    /\ UNCHANGED <<packetVars, recvVars, pgVars, estVars, fnVars, next_seq_no>>

\* self.acquire().await? when the acquire times out: the method returns the
\* error; the pool forgets the waiter.
acquire_timeout(t) ==
    /\ tasks[t].pc = "waiting"
    /\ pool' = [pool EXCEPT !.waiters = remove_waiter(@, t)]
    /\ tasks' = [tasks EXCEPT ![t] = NoTask]
    /\ Returns(t, "AcquireTimeout")
    /\ UNCHANGED <<conns, started>>
    /\ UNCHANGED <<packetVars, recvVars, pgVars, estVars, fnVars, next_seq_no>>

\* The method of the connection is called on the guard and sends its command.
conn_command(t) ==
    /\ tasks[t].pc = "holding"
    /\ conns' = [conns EXCEPT ![tasks[t].conn].state = "AwaitingResponse"]
    /\ tasks' = [tasks EXCEPT ![t].pc = "awaiting"]
    /\ UNCHANGED <<pool, started, returned>>
    /\ UNCHANGED <<packetVars, recvVars, pgVars, estVars, fnVars, next_seq_no>>

\* fetch: `yield row` inside the while loop over live.fetch(..).
fetch_yield(t) ==
    /\ tasks[t].pc = "awaiting"
    /\ tasks[t].as = "BoxStream"
    /\ tasks[t].yielded < MaxYield
    /\ IF live_dropped(tasks[t].as, "yield")
       THEN DropLive(t, [tasks[t] EXCEPT !.yielded = @ + 1], conns, tasks[t].conn)
       ELSE /\ tasks' = [tasks EXCEPT ![t].yielded = @ + 1]
            /\ UNCHANGED <<pool, conns>>
    /\ UNCHANGED <<started, returned>>
    /\ UNCHANGED <<packetVars, recvVars, pgVars, estVars, fnVars, next_seq_no>>

\* The method of the connection returns (for fetch: the stream ends): the
\* response was read to its end, with a value or a server error, or an I/O
\* or framing error poisoned the connection.  The guard is dropped.
conn_return(t) ==
    /\ tasks[t].pc = "awaiting"
    /\ \E outcome \in {"ok", "err_db", "err_io"} :
         LET c == tasks[t].conn IN
         /\ live_dropped(tasks[t].as, "return")
         /\ Returns(t, outcome)
         /\ DropLive(t, NoTask,
                     [conns EXCEPT ![c].state = "Idle",
                                   ![c].poisoned = @ \/ (outcome = "err_io")],
                     c)
    /\ UNCHANGED started
    /\ UNCHANGED <<packetVars, recvVars, pgVars, estVars, fnVars, next_seq_no>>

\* The task is cancelled (its future or its fetch stream is dropped) while
\* it holds a connection; a connection that awaits a response is marked
\* poisoned.
cancel(t) ==
    /\ tasks[t].pc \in {"holding", "awaiting"}
    /\ LET c == tasks[t].conn
           mid == conns[c].state = "AwaitingResponse"
       IN  /\ live_dropped(tasks[t].as, "cancel")
           /\ Returns(t, "cancelled")
           /\ DropLive(t, NoTask,
                       [conns EXCEPT ![c].poisoned = @ \/ mid,
                                     ![c].cancelled = @ \/ mid],
                       c)
    /\ UNCHANGED started
    /\ UNCHANGED <<packetVars, recvVars, pgVars, estVars, fnVars, next_seq_no>>

pool_execute(t) == pool_method(t, "execute")

pool_fetch(t) == pool_method(t, "fetch")

pool_fetch_optional(t) == pool_method(t, "fetch_optional")

pool_describe(t) == pool_method(t, "describe")

InitPool ==
    /\ PacketIdle
    /\ RecvIdle
    /\ PgIdle
    /\ EstIdle
    /\ FnIdle
    /\ next_seq_no = 0
    /\ pool \in { [max |-> m, idle |-> <<>>, size |-> 0, waiters |-> <<>>] : m \in 1..MaxPool }
    /\ conns = <<>>
    /\ tasks = [t \in Tasks |-> NoTask]
    /\ started = 0
    /\ returned = [task |-> 0, result |-> "none"]

NextPool ==
    \/ \E t \in Tasks : pool_execute(t)
    \/ \E t \in Tasks : pool_fetch(t)
    \/ \E t \in Tasks : pool_fetch_optional(t)
    \/ \E t \in Tasks : pool_describe(t)
    \/ \E t \in Tasks : acquire_timeout(t)
    \/ \E t \in Tasks : conn_command(t)
    \/ \E t \in Tasks : fetch_yield(t)
    \/ \E t \in Tasks : conn_return(t)
    \/ \E t \in Tasks : cancel(t)

SpecPool == InitPool /\ [][NextPool]_vars

\* The tasks that hold connection c.
Holders(c) == { t \in Tasks : tasks[t].conn = c }

InUse == { t \in Tasks : tasks[t].conn # 0 }

IdleSet == { pool.idle[i] : i \in DOMAIN pool.idle }

\* C21: the connections in use and the idle ones are never more than the
\* maximum, and every acquire of a connection is matched by one return of
\* it (to the idle queue or discarded) or the connection is still held, by
\* exactly one task.
C21_PoolConservation ==
    /\ Cardinality(InUse) + Len(pool.idle) <= pool.max
    /\ pool.size = Cardinality(InUse) + Len(pool.idle)
    /\ \A c \in DOMAIN conns :
         /\ conns[c].acquired - conns[c].returned = Cardinality(Holders(c))
         /\ Cardinality(Holders(c)) <= 1

C21_Witness ==
    /\ Cardinality(InUse) = pool.max
    /\ pool.max = MaxPool
    /\ pool.waiters # <<>>
    /\ \E c \in DOMAIN conns : conns[c].returned >= 1 /\ Holders(c) # {}

\* C22: a call of acquire gets the connection at the head of the idle queue
\* when there is one, else a newly opened one when the size is below the
\* maximum, else it waits behind the earlier waiters; and a waiter that gets
\* a connection is the one at the head of the waiter queue.
C22_AcquireOrder ==
    [][\A t \in Tasks :
         /\ (tasks[t].pc = "idle" /\ tasks'[t].pc # "idle") =>
               IF pool.idle # <<>>
               THEN tasks'[t].pc = "holding" /\ tasks'[t].conn = Head(pool.idle)
               ELSE IF pool.size < pool.max
               THEN /\ tasks'[t].pc = "holding"
                    /\ tasks'[t].conn = Len(conns) + 1
                    /\ Len(conns') = Len(conns) + 1
               ELSE /\ tasks'[t].pc = "waiting"
                    /\ pool'.waiters = Append(pool.waiters, t)
         /\ (tasks[t].pc = "waiting" /\ tasks'[t].pc = "holding") =>
               /\ t = Head(pool.waiters)
               /\ pool'.waiters = Tail(pool.waiters)]_vars

C22_Witness ==
    /\ Len(pool.waiters) = 1
    /\ \E t \in Tasks : tasks[t].pc = "holding" /\ conns[tasks[t].conn].returned >= 1
                                                /\ conns[tasks[t].conn].acquired >= 2

C24_ExclusiveOwnership ==
    /\ \A t, u \in Tasks : (t # u /\ tasks[t].conn # 0) => tasks[t].conn # tasks[u].conn
    /\ \A t \in Tasks : tasks[t].conn # 0 =>
          /\ tasks[t].conn \notin IdleSet
          /\ conns[tasks[t].conn].state # "Discarded"
          /\ conns[tasks[t].conn].returned = conns[tasks[t].conn].acquired - 1
    /\ Cardinality(IdleSet) = Len(pool.idle)
    /\ \A t \in Tasks : (tasks[t].pc \in {"holding", "awaiting"}) <=> (tasks[t].conn # 0)

C24_Witness ==
    \E t, u \in Tasks :
        /\ tasks[t].as = "BoxStream" /\ tasks[t].pc = "awaiting"
        /\ tasks[t].yielded = MaxYield
        /\ tasks[u].pc = "waiting"
        /\ pool.max = 1

\* C25: a connection whose task was cancelled while the command awaited its
\* response is poisoned and discarded: it is not on the idle queue, no task
\* holds it, and the size counter does not count it.
C25_CancelledIsDiscarded ==
    /\ \A c \in DOMAIN conns :
         conns[c].cancelled =>
            /\ conns[c].poisoned
            /\ conns[c].state = "Discarded"
            /\ c \notin IdleSet
            /\ Holders(c) = {}
    /\ pool.size = Cardinality({ c \in DOMAIN conns : conns[c].state # "Discarded" })

C25_Witness ==
    /\ pool.max = 1
    /\ Len(conns) = 2
    /\ conns[1].cancelled
    /\ \E t \in Tasks : tasks[t].conn = 2 /\ tasks[t].pc = "awaiting"

====
